---- MODULE Spec2Model ----
(***************************************************************************)
(* Antigravity Cockpit: process discovery (ProcessHunter and the platform  *)
(* strategies), the telemetry client (ReactorCore) and the extension glue  *)
(* (bootSystems and the telemetry / malfunction handlers).                 *)
(*                                                                         *)
(* Three specifications share this module:                                 *)
(*   SpecParse  - parseProcessInfo of both strategies on bounded listings  *)
(*   SpecHunter - one ProcessHunter: scanEnvironment and what it calls     *)
(*   Spec       - ReactorCore driven by the extension's handlers           *)
(***************************************************************************)
EXTENDS Integers, Sequences, FiniteSets, TLC

(***************************************************************************)
(* Bounds of the model.                                                    *)
(***************************************************************************)
MaxBlocks == 2
MaxAttemptsArg == 3
MaxPort == 2
MaxPolls == 2
MaxCommands == 1
MaxModels == 3
MaxRecompute == 2
MaxNotifyModels == 1
MaxPins == 1

(***************************************************************************)
(* Command lines.  A command line is a sequence of whitespace-separated    *)
(* words; the regular expressions of the strategies are evaluated on the   *)
(* words through the tables below, one row per word of the vocabulary.     *)
(***************************************************************************)
TOK  == "--csrf_token"
HEX  == "ab12"
HEX2 == "cd34"
ALN  == "zz9"
APP  == "--app_data_dir"
AG   == "antigravity"
PTH  == "/opt/antigravity/language_server"
LS   == "language_server"
PORTF == "--extension_server_port"
NUM  == "42"

Words == {TOK, HEX, HEX2, ALN, APP, AG, PTH, LS, PORTF, NUM}

\* The longest prefix of a word matched by [a-f0-9-]+ under /i ("" = no match).
HexPrefix(w) ==
    CASE w = TOK   -> "--c"
      [] w = HEX   -> "ab12"
      [] w = HEX2  -> "cd34"
      [] w = ALN   -> ""
      [] w = APP   -> "--a"
      [] w = AG    -> "a"
      [] w = PTH   -> ""
      [] w = LS    -> ""
      [] w = PORTF -> "--e"
      [] w = NUM   -> "42"

\* The longest prefix of a word matched by [a-zA-Z0-9-]+ ("" = no match).
AlnumPrefix(w) ==
    CASE w = TOK   -> "--csrf"
      [] w = HEX   -> "ab12"
      [] w = HEX2  -> "cd34"
      [] w = ALN   -> "zz9"
      [] w = APP   -> "--app"
      [] w = AG    -> "antigravity"
      [] w = PTH   -> ""
      [] w = LS    -> "language"
      [] w = PORTF -> "--extension"
      [] w = NUM   -> "42"

\* The number matched by (\d+) at the start of a word (-1 = no match).
DigitPrefix(w) == IF w = NUM THEN 42 ELSE -1

\* String.includes('csrf_token') on one word.
IncludesCsrf(w) == w = TOK

\* 'antigravity' followed by a word boundary at the start of a word.
StartsAntigravityWord(w) == w = AG

\* lowerCmd.includes('\\antigravity\\') || lowerCmd.includes('/antigravity/')
IncludesAgPath(w) == w = PTH

\* String.match returns the leftmost match: the first index k at which the flag
\* is followed by a word that starts with a character of the class (0 = none).
RECURSIVE FirstPortFlagFrom(_, _)
FirstPortFlagFrom(cmd, k) ==
    IF k >= Len(cmd) THEN 0
    ELSE IF cmd[k] = PORTF /\ DigitPrefix(cmd[k + 1]) # -1
         THEN k
         ELSE FirstPortFlagFrom(cmd, k + 1)

RECURSIVE FirstHexTokenFrom(_, _)
FirstHexTokenFrom(cmd, k) ==
    IF k >= Len(cmd) THEN 0
    ELSE IF cmd[k] = TOK /\ HexPrefix(cmd[k + 1]) # ""
         THEN k
         ELSE FirstHexTokenFrom(cmd, k + 1)

RECURSIVE FirstAlnumTokenFrom(_, _)
FirstAlnumTokenFrom(cmd, k) ==
    IF k >= Len(cmd) THEN 0
    ELSE IF cmd[k] = TOK /\ AlnumPrefix(cmd[k + 1]) # ""
         THEN k
         ELSE FirstAlnumTokenFrom(cmd, k + 1)

\* commandLine.match(/--csrf_token[=\s]+([a-f0-9-]+)/i)?.[1]   ("" = no match)
WinTokenMatch(cmd) ==
    LET k == FirstHexTokenFrom(cmd, 1)
    IN  IF k = 0 THEN "" ELSE HexPrefix(cmd[k + 1])

\* cmd.match(/--csrf_token[=\s]+([a-zA-Z0-9-]+)/i)?.[1]         ("" = no match)
UnixTokenMatch(cmd) ==
    LET k == FirstAlnumTokenFrom(cmd, 1)
    IN  IF k = 0 THEN "" ELSE AlnumPrefix(cmd[k + 1])

\* portMatch?.[1] ? parseInt(portMatch[1], 10) : 0
ExtensionPortOf(cmd) ==
    LET k == FirstPortFlagFrom(cmd, 1)
    IN  IF k = 0 THEN 0 ELSE DigitPrefix(cmd[k + 1])

\* /--app_data_dir\s+antigravity\b/i.test(commandLine)
AppDataDirMatch(cmd) ==
    \E k \in 1..(Len(cmd) - 1) : cmd[k] = APP /\ StartsAntigravityWord(cmd[k + 1])

PathMatch(cmd) == \E k \in 1..Len(cmd) : IncludesAgPath(cmd[k])

\* A filter that asks for the token marker alone.
WinIsAntigravityTokenOnly(cmd) == \E k \in 1..Len(cmd) : IncludesCsrf(cmd[k])

WinIsAntigravityProcess(cmd) ==
    IF ~(\E k \in 1..Len(cmd) : IncludesCsrf(cmd[k])) THEN FALSE
    ELSE IF AppDataDirMatch(cmd) THEN TRUE
    ELSE IF PathMatch(cmd) THEN TRUE
    ELSE FALSE

UnixIsAntigravityProcess(cmd) ==
    IF AppDataDirMatch(cmd) THEN TRUE
    ELSE IF PathMatch(cmd) THEN TRUE
    ELSE FALSE

(***************************************************************************)
(* Process listings.  A listing is the stdout of the listing command: its  *)
(* format and its process blocks.  pid = NaN stands for a block without a  *)
(* (numeric) process id, cmd = <<>> for one without a command line.        *)
(***************************************************************************)
NaN == -1
CurrentPid == 5

SampleCmds ==
    { <<>>,
      <<LS, TOK, HEX, APP, AG>>,
      <<PTH, TOK, HEX>>,
      <<LS, TOK, HEX>>,
      <<LS, APP, AG>>,
      <<PTH, TOK, ALN>>,
      <<LS, TOK, APP, AG>>,
      <<PTH, TOK>>,
      <<PTH>>,
      <<LS, PORTF, NUM, TOK, HEX, APP, AG>> }

SampleBlocks ==
    [pid : {7}, ppid : {1, CurrentPid}, cmd : SampleCmds]
      \cup [pid : {NaN, 0}, ppid : {1}, cmd : SampleCmds]
      \cup [pid : {8}, ppid : {NaN, CurrentPid}, cmd : {<<PTH, TOK, HEX2>>}]

SeqsUpTo(S, n) == UNION { [1..k -> S] : k \in 0..n }

\* The process ids of a listing are those of distinct processes.
DistinctPids(blocks) ==
    \A j, k \in 1..Len(blocks) :
        (j # k /\ blocks[j].pid # NaN) => blocks[j].pid # blocks[k].pid

Formats == {"json", "wmic", "text"}

\* candidates.push({ pid, extensionPort, csrfToken })
Candidate(pid, cmd, token) ==
    [pid |-> pid, extensionPort |-> ExtensionPortOf(cmd), csrfToken |-> token]

\* The JSON branch's loop over the items, from item i on.
RECURSIVE WinJsonLoop(_, _)
WinJsonLoop(blocks, i) ==
    IF i > Len(blocks) THEN <<>>
    ELSE LET item == blocks[i]
             commandLine == item.cmd
             rest == WinJsonLoop(blocks, i + 1)
         IN  IF commandLine = <<>> \/ ~WinIsAntigravityProcess(commandLine) THEN rest
             ELSE IF item.pid = NaN \/ item.pid = 0 THEN rest
             ELSE IF WinTokenMatch(commandLine) = "" THEN rest
             ELSE <<Candidate(item.pid, commandLine, WinTokenMatch(commandLine))>>
                    \o rest

\* The WMIC branch's loop over the blocks, from block i on.
RECURSIVE WinWmicLoop(_, _)
WinWmicLoop(blocks, i) ==
    IF i > Len(blocks) THEN <<>>
    ELSE LET block == blocks[i]
             commandLine == block.cmd
             rest == WinWmicLoop(blocks, i + 1)
         IN  IF block.pid = NaN \/ commandLine = <<>> THEN rest
             ELSE IF ~WinIsAntigravityProcess(commandLine) THEN rest
             ELSE IF WinTokenMatch(commandLine) = "" THEN rest
             ELSE <<Candidate(block.pid, commandLine, WinTokenMatch(commandLine))>>
                    \o rest

\* WindowsStrategy.parseProcessInfo.  Text that is not JSON makes JSON.parse
\* throw (caught: no candidates); text in neither format has no WMIC block.
WinParseProcessInfo(usePs, stdout) ==
    IF usePs \/ stdout.fmt = "json"
    THEN IF stdout.fmt # "json" THEN <<>> ELSE WinJsonLoop(stdout.blocks, 1)
    ELSE IF stdout.fmt # "wmic" THEN <<>> ELSE WinWmicLoop(stdout.blocks, 1)

\* UnixStrategy.parseProcessInfo before its sort: the loop over the lines.
RECURSIVE UnixLoop(_, _)
UnixLoop(blocks, i) ==
    IF i > Len(blocks) THEN <<>>
    ELSE LET line == blocks[i]
             cmd == line.cmd
             rest == UnixLoop(blocks, i + 1)
         IN  IF cmd = <<>> THEN rest
             ELSE IF line.pid = NaN \/ line.ppid = NaN THEN rest
             ELSE IF UnixTokenMatch(cmd) # "" /\ UnixIsAntigravityProcess(cmd)
                  THEN <<Candidate(line.pid, cmd, UnixTokenMatch(cmd))
                           @@ [ppid |-> line.ppid]>> \o rest
                  ELSE rest

IsPermutation(s, t) ==
    /\ Len(s) = Len(t)
    /\ \E f \in [1..Len(s) -> 1..Len(s)] :
          /\ \A i, j \in 1..Len(s) : i # j => f[i] # f[j]
          /\ \A i \in 1..Len(s) : s[i] = t[f[i]]

IsChild(c) == c.ppid = CurrentPid

\* candidates.sort(children of the current process first).  The comparator is
\* consistent when at most one candidate is a child, and the sort, being
\* stable, then moves that child to the front; with two or more children the
\* comparator answers -1 both ways and the order is implementation-defined.
UnixSortOutcomes(cands) ==
    LET children == SelectSeq(cands, IsChild)
        others   == SelectSeq(cands, LAMBDA c : ~IsChild(c))
    IN  IF Len(children) <= 1
        THEN { children \o others }
        ELSE { s \in [1..Len(cands) -> { cands[i] : i \in 1..Len(cands) }] :
                 IsPermutation(s, cands) }

\* UnixStrategy.parseProcessInfo: the lists it may return.
UnixParseProcessInfo(stdout) == UnixSortOutcomes(UnixLoop(stdout.blocks, 1))

\* strategy.parseProcessInfo(stdout), by platform.
ParseOutcomes(plat, usePs, stdout) ==
    IF plat = "win32" THEN { WinParseProcessInfo(usePs, stdout) }
    ELSE UnixParseProcessInfo(stdout)

(***************************************************************************)
(* Port listings.  The output of the port-listing command is the sequence  *)
(* of port numbers its LISTEN lines carry, in output order.                *)
(***************************************************************************)
Ports == 1..MaxPort

\* Up to MaxPort lines, so that a port may be listed twice and out of order.
RawPortOutputs == SeqsUpTo(Ports, MaxPort)

\* The loop "if (!ports.includes(port)) ports.push(port)".
RECURSIVE PushDistinct(_, _)
PushDistinct(raw, acc) ==
    IF raw = <<>> THEN acc
    ELSE PushDistinct(Tail(raw),
                      IF \E k \in 1..Len(acc) : acc[k] = Head(raw)
                      THEN acc ELSE Append(acc, Head(raw)))

\* Insertion of x into an ascending sequence.
RECURSIVE InsertAsc(_, _)
InsertAsc(x, s) ==
    IF s = <<>> THEN <<x>>
    ELSE IF x - Head(s) < 0 THEN <<x>> \o s
    ELSE <<Head(s)>> \o InsertAsc(x, Tail(s))

\* ports.sort((a, b) => a - b)
RECURSIVE SortAsc(_)
SortAsc(s) == IF s = <<>> THEN <<>> ELSE InsertAsc(Head(s), SortAsc(Tail(s)))

\* The distinct ports in output order, the sort left out.
parseListeningPortsUnsorted(raw) == PushDistinct(raw, <<>>)

\* parseListeningPorts of both strategies: the distinct ports, ascending.
parseListeningPorts(raw) == SortAsc(PushDistinct(raw, <<>>))

(***************************************************************************)
(* State.                                                                  *)
(***************************************************************************)
VARIABLES
    \* parseProcessInfo applied to one listing (SpecParse)
    pIn,            \* [plat, usePs, stdout]: the strategy and the listing
    pOut,           \* the list parseProcessInfo returned
    pDone           \* whether parseProcessInfo has returned

parseVars == <<pIn, pOut, pDone>>

VARIABLES
    \* ProcessHunter and its strategy (SpecHunter)
    platform,                   \* process.platform
    usePowershell,              \* WindowsStrategy.usePowershell
    hpc,                        \* where scanEnvironment stands
    phase,                      \* "A" scanByProcessName, "B" scanByKeyword
    maxAttempts,                \* scanByProcessName's argument
    i,                          \* scanByProcessName's loop counter
    powershellTimeoutRetried,
    strategySwitchCount,
    candidates,                 \* the list parseProcessInfo returned
    ci,                         \* index of the candidate being verified
    ports,                      \* identifyPorts' result for that candidate
    pidx,                       \* index of the port being probed
    inflight,                   \* liveness requests sent and not yet answered
    result,                     \* what scanEnvironment returns
    \* history kept for the properties
    listExecs,                  \* listing commands executed by this Phase A
    plainOnly,                  \* no listing error so far had a switch or timeout signature
    probeLog,                   \* ports probed by the current verifyConnection call
    got200,                     \* whether one of those probes was answered with HTTP 200
    verifyLog                   \* verifyAndConnect calls of the current attempt

strategyVars == <<platform, usePowershell>>
scanVars == <<hpc, phase, maxAttempts, i, powershellTimeoutRetried, strategySwitchCount>>
verifyVars == <<candidates, ci, ports, pidx, inflight, result>>
historyVars == <<listExecs, plainOnly, probeLog, got200, verifyLog>>
hunterVars == <<strategyVars, scanVars, verifyVars, historyVars>>

VARIABLES
    \* ReactorCore (Spec)
    port,                       \* ReactorCore.port
    token,                      \* ReactorCore.token
    pulseTimer,                 \* ReactorCore.pulseTimer (0 = undefined)
    timers,                     \* the interval timers that are set
    timerPeriods,               \* the period of each interval timer that is set
    currentInterval,            \* ReactorCore.currentInterval
    lastSnapshot,               \* ReactorCore.lastSnapshot
    lastRawResponse,            \* ReactorCore.lastRawResponse
    requests,                   \* syncTelemetry calls awaiting transmit
    exhaustedNotifiedModels,    \* ReactorCore.exhaustedNotifiedModels
    warningNotifiedModels,      \* ReactorCore.warningNotifiedModels
    \* extension.ts
    systemOnline,
    autoRetryCount,
    scans,                      \* bootSystems calls awaiting scanEnvironment
    retryTimers,                \* setTimeout(bootSystems) not yet fired
    hudView,                    \* what hud.refreshView was last given
    \* history kept for the properties
    polls,                      \* syncTelemetry calls so far
    commands,                   \* agCockpit.retry invocations so far
    lastPoll,                   \* the syncTelemetry call that has just ended
    lastCall                    \* the reprocess or shutdown call that has just returned

reactorVars == <<port, token, pulseTimer, timers, timerPeriods, currentInterval, lastSnapshot,
                 lastRawResponse, requests>>
notifyVars == <<exhaustedNotifiedModels, warningNotifiedModels>>
extensionVars == <<systemOnline, autoRetryCount, scans, retryTimers, hudView>>
cockpitVars == <<reactorVars, notifyVars, extensionVars, polls, commands, lastPoll,
                 lastCall>>

VARIABLES
    \* grouping (SpecRecompute, SpecGroups)
    snapModels,                 \* the models of reactor.getLatestSnapshot()
    groupMappings,              \* config.groupMappings: modelId -> groupId
    groupingCustomNames,        \* config.groupingCustomNames: modelId -> name
    groups,                     \* the groups of the snapshot decoded last
    recomputed,                 \* what each autoGroup so far found and stored
    groupingEnabled,            \* config.groupingEnabled
    groupingShowInStatusBar,    \* config.groupingShowInStatusBar
    pinnedGroups,               \* config.pinnedGroups: groupIds
    groupOrder                  \* config.groupOrder: groupIds

groupVars == <<snapModels, groupMappings, groupingCustomNames, groups, recomputed,
               groupingEnabled, groupingShowInStatusBar, pinnedGroups, groupOrder>>
VARIABLES
    \* thresholds (SpecThresholds)
    warningThreshold,           \* the stored cockpit.warningThreshold
    criticalThreshold,          \* the stored cockpit.criticalThreshold
    pendingCritical,            \* <<v>>: updateThresholds has yet to store v
    warningBox,                 \* <<config>>: setWarningThreshold's input box is open
    criticalBox,                \* <<config>>: setCriticalThreshold's input box is open
    lastRequest                 \* the threshold request handled last

thresholdVars == <<warningThreshold, criticalThreshold, pendingCritical, warningBox,
                   criticalBox, lastRequest>>

VARIABLES
    \* history of the boots (SpecBoot)
    discoveries,                \* scanEnvironment calls that have returned null
    offlineShown,               \* handleOfflineState calls that followed them
    allNotFound                 \* every scanEnvironment call so far returned null

bootVars == <<discoveries, offlineShown, allNotFound>>

VARIABLES
    \* quota notices (SpecNotify)
    notificationEnabled,        \* the stored cockpit.notificationEnabled
    notifiedModels,             \* extension.ts notifiedModels: <<modelId, level>>
    alwaysEnabled,              \* notificationEnabled has been true throughout
    noticedSince,               \* <<modelId, notice>> shown since the model was
                                \* last above the warning threshold
    lastNotices                 \* what the poll that has just ended showed

alertVars == <<notificationEnabled, notifiedModels, alwaysEnabled, noticedSince,
               lastNotices>>
settingsVars == <<groupVars, thresholdVars, bootVars, alertVars>>

vars == <<parseVars, hunterVars, cockpitVars, settingsVars>>

MAX_STRATEGY_SWITCHES == 2
NoPort == 0
NotFound == [found |-> FALSE]
MAX_AUTO_RETRY == 3
WARNING_DEFAULT == 30
CRITICAL_DEFAULT == 10
Undefined == [undefined |-> TRUE]
NoPoll == [id |-> 0]
NoCall == [op |-> "none"]

\* The empty object {}.
EmptyObject == [x \in {} |-> x]

\* A ReactorCore and an extension in which nothing has run.
CockpitQuiet ==
    /\ port = 0
    /\ token = ""
    /\ pulseTimer = 0
    /\ timers = {}
    /\ timerPeriods = EmptyObject
    /\ currentInterval = 0
    /\ lastSnapshot = Undefined
    /\ lastRawResponse = Undefined
    /\ requests = {}
    /\ systemOnline = FALSE
    /\ autoRetryCount = 0
    /\ scans = 0
    /\ retryTimers = 0
    /\ hudView = Undefined
    /\ polls = 0
    /\ commands = 0
    /\ lastPoll = NoPoll
    /\ exhaustedNotifiedModels = {}
    /\ warningNotifiedModels = {}
    /\ lastCall = NoCall

\* The stored thresholds are the defaults and no request is under way.
ThresholdsQuiet ==
    /\ warningThreshold = WARNING_DEFAULT
    /\ criticalThreshold = CRITICAL_DEFAULT
    /\ pendingCritical = <<>>
    /\ warningBox = <<>>
    /\ criticalBox = <<>>
    /\ lastRequest = [kind |-> "none"]

\* No poll has ended.
NoNotices == [polled |-> FALSE]

\* Notifications are on, as by default, and nothing has been shown.
AlertsQuiet ==
    /\ notificationEnabled = TRUE
    /\ notifiedModels = {}
    /\ alwaysEnabled = TRUE
    /\ noticedSince = {}
    /\ lastNotices = NoNotices

\* No scanEnvironment call has returned.
BootQuiet ==
    /\ discoveries = 0
    /\ offlineShown = 0
    /\ allNotFound = TRUE

\* The grouping settings nobody has changed: getConfig's defaults.
GroupConfigDefault ==
    /\ groupingEnabled = TRUE
    /\ groupingShowInStatusBar = TRUE
    /\ pinnedGroups = <<>>
    /\ groupOrder = <<>>

\* No snapshot, nothing persisted.
SettingsQuiet ==
    /\ snapModels = <<>>
    /\ groupMappings = EmptyObject
    /\ groupingCustomNames = EmptyObject
    /\ groups = <<>>
    /\ recomputed = <<>>
    /\ GroupConfigDefault
    /\ ThresholdsQuiet
    /\ BootQuiet
    /\ AlertsQuiet

\* A ProcessHunter nobody has called yet.
HunterQuiet(plat) ==
    /\ platform = plat
    /\ usePowershell = TRUE
    /\ hpc = "idle"
    /\ phase = "A"
    /\ maxAttempts = 0
    /\ i = 0
    /\ powershellTimeoutRetried = FALSE
    /\ strategySwitchCount = 0
    /\ candidates = <<>>
    /\ ci = 0
    /\ ports = <<>>
    /\ pidx = 0
    /\ inflight = {}
    /\ result = NotFound
    /\ listExecs = 0
    /\ plainOnly = TRUE
    /\ probeLog = <<>>
    /\ got200 = FALSE
    /\ verifyLog = <<>>

\* No listing handed to parseProcessInfo on its own.
ParseQuiet ==
    /\ pIn = [plat |-> "linux", usePs |-> FALSE, stdout |-> [fmt |-> "text", blocks |-> <<>>]]
    /\ pOut = <<>>
    /\ pDone = TRUE

Listings ==
    [fmt : Formats,
     blocks : { bs \in SeqsUpTo(SampleBlocks, MaxBlocks) : DistinctPids(bs) }]

ParseInputs ==
    [plat : {"win32"}, usePs : BOOLEAN, stdout : Listings]
      \cup [plat : {"darwin", "linux"}, usePs : {FALSE},
            stdout : { l \in Listings : l.fmt = "text" }]

InitParse ==
    /\ pIn \in ParseInputs
    /\ pOut = <<>>
    /\ pDone = FALSE
    /\ HunterQuiet("linux")
    /\ CockpitQuiet
    /\ SettingsQuiet

\* WindowsStrategy.parseProcessInfo(stdout)
ParseWindows ==
    /\ ~pDone
    /\ pIn.plat = "win32"
    /\ pOut' = WinParseProcessInfo(pIn.usePs, pIn.stdout)
    /\ pDone' = TRUE
    /\ UNCHANGED <<pIn, hunterVars, cockpitVars, settingsVars>>

\* UnixStrategy.parseProcessInfo(stdout)
ParseUnix ==
    /\ ~pDone
    /\ pIn.plat # "win32"
    /\ pOut' \in UnixParseProcessInfo(pIn.stdout)
    /\ pDone' = TRUE
    /\ UNCHANGED <<pIn, hunterVars, cockpitVars, settingsVars>>

NextParse == ParseWindows \/ ParseUnix

SpecParse == InitParse /\ [][NextParse]_vars

(***************************************************************************)
(* C2  Candidate filtering.                                                *)
(***************************************************************************)
\* An extractable --csrf_token value: the flag followed by a word that starts
\* with a character the strategy's token class accepts.
HasTokenMarker(plat, cmd) ==
    \E k \in 1..(Len(cmd) - 1) :
        /\ cmd[k] = TOK
        /\ IF plat = "win32" THEN HexPrefix(cmd[k + 1]) # ""
                             ELSE AlnumPrefix(cmd[k + 1]) # ""

HasFingerprint(cmd) ==
    \/ \E k \in 1..(Len(cmd) - 1) : cmd[k] = APP /\ cmd[k + 1] = AG
    \/ \E k \in 1..Len(cmd) : cmd[k] = PTH

\* C2: every candidate parseProcessInfo returns, under either parser, was
\* parsed from a block of the listing whose command line carries the token
\* marker and a product fingerprint; no block lacking the token is returned.
C2_OnlyTokenAndFingerprint ==
    pDone =>
        \A k \in 1..Len(pOut) :
            \E j \in 1..Len(pIn.stdout.blocks) :
                LET b == pIn.stdout.blocks[j]
                IN  /\ pOut[k].pid = b.pid
                    /\ HasTokenMarker(pIn.plat, b.cmd)
                    /\ HasFingerprint(b.cmd)
                    /\ pOut[k].csrfToken # ""

\* A listing with a block that has the fingerprint but no token next to a
\* block that has both: the second one alone is returned.
C2_Witness ==
    /\ pDone
    /\ Len(pIn.stdout.blocks) = 2
    /\ Len(pOut) = 1
    /\ \E j \in 1..2 : /\ HasFingerprint(pIn.stdout.blocks[j].cmd)
                       /\ ~HasTokenMarker(pIn.plat, pIn.stdout.blocks[j].cmd)
                       /\ pIn.stdout.blocks[j].pid = 7
                       /\ pOut[1].pid # 7

(***************************************************************************)
(* ProcessHunter (SpecHunter).  Every await is a step: the environment     *)
(* answers each spawned command and each liveness request.                 *)
(***************************************************************************)
HunterBlocks ==
    { [pid |-> 7, ppid |-> 1, cmd |-> <<LS, TOK, HEX, APP, AG>>],
      [pid |-> 8, ppid |-> CurrentPid, cmd |-> <<PTH, TOK, HEX2>>],
      [pid |-> 9, ppid |-> 1, cmd |-> <<LS, PORTF, NUM, TOK, HEX, APP, AG>>],
      [pid |-> 3, ppid |-> 1, cmd |-> <<LS, APP, AG>>] }

\* What the command in use prints: PowerShell's ConvertTo-Json, WMIC's
\* /format:list, or the lines of ps.
HunterListings ==
    [fmt : IF platform # "win32" THEN {"text"}
           ELSE IF usePowershell THEN {"json"} ELSE {"wmic"},
     blocks : { bs \in SeqsUpTo(HunterBlocks, MaxBlocks) : DistinctPids(bs) }]

\* What the keyword command prints: its Where-Object keeps the processes whose
\* command line matches csrf_token.
KeywordListings ==
    { l \in HunterListings :
        \A k \in 1..Len(l.blocks) :
            \E w \in 1..Len(l.blocks[k].cmd) : IncludesCsrf(l.blocks[k].cmd[w]) }

\* What the catch block reads in a listing error's message: whether it holds
\* one of the needsSwitch signatures, and whether it holds a timeout signature.
ListErrors == [switchSig : BOOLEAN, timeoutSig : BOOLEAN]

\* What a liveness request ends with.
PingOutcomes == {"200", "other status", "error", "timeout"}

InitHunter ==
    /\ \E plat \in {"win32", "darwin", "linux"} : HunterQuiet(plat)
    /\ ParseQuiet
    /\ CockpitQuiet
    /\ SettingsQuiet

\* The locals of one attempt (candidates, ports, the loops' indices) and the
\* history of its verifications, as a new attempt or phase starts.
ResetVerify ==
    /\ candidates' = <<>>
    /\ ci' = 0
    /\ ports' = <<>>
    /\ pidx' = 0
    /\ probeLog' = <<>>
    /\ got200' = FALSE
    /\ verifyLog' = <<>>

\* scanEnvironment(n) up to the first listing command of scanByProcessName.
ScanEnvironment(n) ==
    /\ hpc = "idle"
    /\ hpc' = "list"
    /\ phase' = "A"
    /\ maxAttempts' = n
    /\ i' = 0
    /\ powershellTimeoutRetried' = FALSE
    /\ strategySwitchCount' = 0
    /\ result' = NotFound
    /\ listExecs' = 0
    /\ plainOnly' = TRUE
    /\ ResetVerify
    /\ UNCHANGED <<strategyVars, inflight, parseVars, cockpitVars, settingsVars>>

\* A loop test that lets attempt number maxAttempts + 1 run.
NextAttemptOneMore ==
    /\ i' = i + 1
    /\ IF i + 1 <= maxAttempts
       THEN hpc' = "list" /\ phase' = "A"
       ELSE hpc' = "keyword" /\ phase' = "B"

\* The for loop's i++ and test after attempt i: the next attempt, or
\* scanByProcessName returns null and scanEnvironment calls scanByKeyword.
NextAttempt ==
    /\ i' = i + 1
    /\ IF i + 1 < maxAttempts
       THEN hpc' = "list" /\ phase' = "A"
       ELSE hpc' = "keyword" /\ phase' = "B"

\* A switch test that knows no cap.
MaySwitchUncapped == TRUE

\* The test the catch block makes before it looks for a needsSwitch signature.
MaySwitch == strategySwitchCount < MAX_STRATEGY_SWITCHES

\* A timeout test that forgets that it has retried already.
FirstPowershellTimeoutForgets(e) == usePowershell /\ e.timeoutSig

\* The test the catch block makes for the cold-start retry: PowerShell is
\* selected, no timeout was retried yet and the message holds a timeout
\* signature.
FirstPowershellTimeout(e) ==
    usePowershell /\ ~powershellTimeoutRetried /\ e.timeoutSig

\* The catch block of attempt i, the listing command having rejected with
\* error e.
ListFails(e) ==
    /\ hpc = "list"
    /\ plainOnly' = (plainOnly /\ ~e.switchSig /\ ~e.timeoutSig)
    /\ IF platform = "win32" /\ MaySwitch /\ e.switchSig
       THEN /\ usePowershell' = ~usePowershell
            /\ strategySwitchCount' = strategySwitchCount + 1
            /\ UNCHANGED <<i, hpc, phase, powershellTimeoutRetried>>
       ELSE IF platform = "win32" /\ FirstPowershellTimeout(e)
       THEN /\ powershellTimeoutRetried' = TRUE
            /\ UNCHANGED <<i, hpc, phase, usePowershell, strategySwitchCount>>
       ELSE /\ NextAttempt
            /\ UNCHANGED <<usePowershell, strategySwitchCount, powershellTimeoutRetried>>
    /\ listExecs' = listExecs + 1
    /\ ResetVerify
    /\ UNCHANGED <<platform, maxAttempts, inflight, result, parseVars, cockpitVars, settingsVars>>

\* The listing command of attempt i rejects with one of the errors.
ListThrows ==
    /\ hpc = "list"
    /\ \E e \in ListErrors : ListFails(e)

\* The listing command of attempt i prints nothing (or blanks): continue.
ListEmpty ==
    /\ hpc = "list"
    /\ listExecs' = listExecs + 1
    /\ NextAttempt
    /\ ResetVerify
    /\ UNCHANGED <<strategyVars, maxAttempts, powershellTimeoutRetried, strategySwitchCount,
                   inflight, result, plainOnly, parseVars, cockpitVars, settingsVars>>

\* The listing command of attempt i prints stdout: parse it and, if there are
\* candidates, start verifying the first one.
ListOutput ==
    /\ hpc = "list"
    /\ listExecs' = listExecs + 1
    /\ \E stdout \in HunterListings :
          \E cands \in ParseOutcomes(platform, usePowershell, stdout) :
              /\ candidates' = cands
              /\ IF Len(cands) > 0
                 THEN /\ ci' = 1
                      /\ hpc' = "ports"
                      /\ UNCHANGED <<i, phase>>
                 ELSE /\ NextAttempt
                      /\ ci' = 0
    /\ ports' = <<>>
    /\ pidx' = 0
    /\ probeLog' = <<>>
    /\ got200' = FALSE
    /\ verifyLog' = <<>>
    /\ UNCHANGED <<strategyVars, maxAttempts, powershellTimeoutRetried, strategySwitchCount,
                   inflight, result, plainOnly, parseVars, cockpitVars, settingsVars>>

\* A candidate loop that gives up at the first null.
VerifyReturnsNullGivesUp ==
    /\ verifyLog' = Append(verifyLog, [c |-> ci, ret |-> NoPort])
    /\ UNCHANGED ci
    /\ IF phase = "A"
       THEN NextAttempt
       ELSE hpc' = "diag" /\ UNCHANGED <<i, phase>>

\* verifyAndConnect(candidates[ci]) returned null: the next candidate, or the
\* end of this attempt (Phase A) or of scanByKeyword (Phase B).
VerifyReturnsNull ==
    /\ verifyLog' = Append(verifyLog, [c |-> ci, ret |-> NoPort])
    /\ IF ci < Len(candidates)
       THEN /\ ci' = ci + 1
            /\ hpc' = "ports"
            /\ UNCHANGED <<i, phase>>
       ELSE /\ UNCHANGED ci
            /\ IF phase = "A"
               THEN NextAttempt
               ELSE hpc' = "diag" /\ UNCHANGED <<i, phase>>

\* identifyPorts(pid): the port-listing command fails (caught: no ports) or
\* prints raw; then the start of verifyConnection, if there is a port.
IdentifyPorts ==
    /\ hpc = "ports"
    /\ \E failed \in BOOLEAN :
       \E raw \in IF failed THEN {<<>>} ELSE RawPortOutputs :
          LET prts == IF failed THEN <<>> ELSE parseListeningPorts(raw)
          IN  /\ ports' = prts
              /\ IF Len(prts) > 0
                 THEN /\ pidx' = 1
                      /\ hpc' = "ping"
                      /\ UNCHANGED <<i, phase, ci, verifyLog>>
                 ELSE /\ VerifyReturnsNull
                      /\ pidx' = 0
    /\ probeLog' = <<>>
    /\ got200' = FALSE
    /\ UNCHANGED <<strategyVars, maxAttempts, powershellTimeoutRetried, strategySwitchCount,
                   candidates, inflight, result, listExecs, plainOnly, parseVars, cockpitVars, settingsVars>>

\* pingPort(ports[pidx], token): the request is written.
PingSend ==
    /\ hpc = "ping"
    /\ inflight' = inflight \cup {[port |-> ports[pidx], token |-> candidates[ci].csrfToken]}
    /\ hpc' = "reply"
    /\ UNCHANGED <<strategyVars, phase, maxAttempts, i, powershellTimeoutRetried,
                   strategySwitchCount, candidates, ci, ports, pidx, result,
                   historyVars, parseVars, cockpitVars, settingsVars>>

\* A liveness test that takes any HTTP answer.
PingResultAnyStatus(o) == o \in {"200", "other status"}

\* res.statusCode === 200; an error or the timeout resolves false.
PingResult(o) == o = "200"

\* pingPort resolves; verifyConnection returns the port or goes on, and
\* verifyAndConnect returns the target if (validPort).
PingReply ==
    /\ hpc = "reply"
    /\ inflight' = inflight \ {[port |-> ports[pidx], token |-> candidates[ci].csrfToken]}
    /\ probeLog' = Append(probeLog, ports[pidx])
    /\ \E o \in PingOutcomes :
          /\ got200' = (got200 \/ o = "200")
          /\ IF PingResult(o)
             THEN /\ result' = [found |-> TRUE,
                                extensionPort |-> candidates[ci].extensionPort,
                                connectPort |-> ports[pidx],
                                csrfToken |-> candidates[ci].csrfToken]
                  /\ verifyLog' = Append(verifyLog, [c |-> ci, ret |-> ports[pidx]])
                  /\ hpc' = "done"
                  /\ UNCHANGED <<i, phase, ci, pidx>>
             ELSE IF pidx < Len(ports)
             THEN /\ pidx' = pidx + 1
                  /\ hpc' = "ping"
                  /\ UNCHANGED <<i, phase, ci, result, verifyLog>>
             ELSE /\ VerifyReturnsNull
                  /\ UNCHANGED <<pidx, result>>
    /\ UNCHANGED <<strategyVars, maxAttempts, powershellTimeoutRetried, strategySwitchCount,
                   candidates, ports, listExecs, plainOnly, parseVars, cockpitVars, settingsVars>>

\* A keyword scan that any Windows strategy may run.
KeywordSupportedOnWindows == platform = "win32"

\* The two tests scanByKeyword makes before it builds its command.
KeywordSupported == platform = "win32" /\ usePowershell

\* scanByKeyword where it spawns nothing: not Windows, or WMIC selected.
KeywordSkipped ==
    /\ hpc = "keyword"
    /\ ~KeywordSupported
    /\ hpc' = "diag"
    /\ ResetVerify
    /\ UNCHANGED <<strategyVars, phase, maxAttempts, i, powershellTimeoutRetried,
                   strategySwitchCount, inflight, result, listExecs, plainOnly,
                   parseVars, cockpitVars, settingsVars>>

\* scanByKeyword: the keyword command rejects (caught).
KeywordThrows ==
    /\ hpc = "keyword"
    /\ KeywordSupported
    /\ hpc' = "diag"
    /\ ResetVerify
    /\ UNCHANGED <<strategyVars, phase, maxAttempts, i, powershellTimeoutRetried,
                   strategySwitchCount, inflight, result, listExecs, plainOnly,
                   parseVars, cockpitVars, settingsVars>>

\* scanByKeyword: the keyword command prints stdout.
KeywordOutput ==
    /\ hpc = "keyword"
    /\ KeywordSupported
    /\ \E stdout \in KeywordListings :
          LET cands == WinParseProcessInfo(usePowershell, stdout)
          IN  /\ candidates' = cands
              /\ IF Len(cands) > 0
                 THEN ci' = 1 /\ hpc' = "ports"
                 ELSE ci' = 0 /\ hpc' = "diag"
    /\ ports' = <<>>
    /\ pidx' = 0
    /\ probeLog' = <<>>
    /\ got200' = FALSE
    /\ verifyLog' = <<>>
    /\ UNCHANGED <<strategyVars, phase, maxAttempts, i, powershellTimeoutRetried,
                   strategySwitchCount, inflight, result, listExecs, plainOnly,
                   parseVars, cockpitVars, settingsVars>>

\* runDiagnostics (whatever its command does is only logged), return null.
RunDiagnostics ==
    /\ hpc = "diag"
    /\ result' = NotFound
    /\ hpc' = "done"
    /\ phase' = "C"
    /\ ResetVerify
    /\ UNCHANGED <<strategyVars, maxAttempts, i, powershellTimeoutRetried,
                   strategySwitchCount, inflight, listExecs, plainOnly, parseVars, cockpitVars, settingsVars>>

\* scanEnvironment's caller takes the result; the call's locals are gone.
ScanReturns ==
    /\ hpc = "done"
    /\ hpc' = "idle"
    /\ phase' = "A"
    /\ maxAttempts' = 0
    /\ i' = 0
    /\ powershellTimeoutRetried' = FALSE
    /\ strategySwitchCount' = 0
    /\ result' = NotFound
    /\ listExecs' = 0
    /\ plainOnly' = TRUE
    /\ ResetVerify
    /\ UNCHANGED <<strategyVars, inflight, parseVars, cockpitVars, settingsVars>>

NextHunter ==
    \/ \E n \in 1..MaxAttemptsArg : ScanEnvironment(n)
    \/ ListThrows
    \/ ListEmpty
    \/ ListOutput
    \/ IdentifyPorts
    \/ PingSend
    \/ PingReply
    \/ KeywordSkipped
    \/ KeywordThrows
    \/ KeywordOutput
    \/ RunDiagnostics
    \/ ScanReturns

SpecHunter == InitHunter /\ [][NextHunter]_vars

(***************************************************************************)
(* C1  Bounded retry.                                                      *)
(***************************************************************************)
\* Phase A is over (scanByProcessName returned null) and none of its listing
\* errors carried a switch or a timeout signature.
PhaseAFailedPlainly == plainOnly /\ phase \in {"B", "C"}

\* C1 as stated: when every Phase A attempt failed plainly the listing command
\* ran exactly maxAttempts times and scanEnvironment returns NotFound.
C1_Original ==
    (hpc = "done" /\ PhaseAFailedPlainly) =>
        (listExecs = maxAttempts /\ result = NotFound)

\* C1 (amended): when every Phase A attempt fails plainly the listing command
\* runs exactly maxAttempts times, one per attempt, and scanByProcessName
\* returns null; scanEnvironment then returns NotFound unless the keyword
\* search of Phase B, which runs on Windows under PowerShell only, verified a
\* candidate.
C1_BoundedRetry ==
    /\ (plainOnly /\ phase = "A" /\ hpc # "idle") =>
           /\ i < maxAttempts \/ hpc = "done"
           /\ listExecs = i + (IF hpc = "list" THEN 0 ELSE 1)
    /\ PhaseAFailedPlainly =>
           /\ i = maxAttempts
           /\ listExecs = maxAttempts
    /\ (hpc = "done" /\ PhaseAFailedPlainly) =>
           \/ result = NotFound
           \/ /\ phase = "B"
              /\ platform = "win32"
              /\ usePowershell
              /\ got200

\* Three plain failures of three attempts, and scanEnvironment returns null.
C1_Witness ==
    /\ hpc = "done"
    /\ PhaseAFailedPlainly
    /\ maxAttempts = 3
    /\ listExecs = 3
    /\ result = NotFound

(***************************************************************************)
(* C3  verifyAndConnect returns null iff no listed port answers HTTP 200.  *)
(***************************************************************************)
\* A verifyAndConnect call has returned and its ports and probes are still
\* those of that call.
VerifyReturned == Len(verifyLog) > 0 /\ hpc \notin {"ping", "reply"}

LastVerify == verifyLog[Len(verifyLog)]

\* C3: verifyAndConnect returned null exactly when the candidate had no
\* listening port, or every listed port was asked and none answered HTTP 200.
C3_NullIffNoPortAnswers ==
    VerifyReturned =>
        ((LastVerify.ret = NoPort) <=>
            (ports = <<>> \/ (probeLog = ports /\ ~got200)))

\* Two listed ports, both asked, neither answered 200: null.
C3_Witness ==
    /\ VerifyReturned
    /\ LastVerify.ret = NoPort
    /\ Len(ports) = 2
    /\ probeLog = ports

(***************************************************************************)
(* C4  Probe order.                                                        *)
(***************************************************************************)
\* C4: the ports of a candidate are in strictly ascending order and are
\* probed in that order, one request in flight at most; the probe that is
\* answered with 200 is the last one, and its port is returned with the token
\* of the candidate being verified.
C4_ProbeOrder ==
    /\ Cardinality(inflight) <= 1
    /\ \A k, l \in 1..Len(ports) : k < l => ports[k] < ports[l]
    /\ Len(probeLog) <= Len(ports)
    /\ \A k \in 1..Len(probeLog) : probeLog[k] = ports[k]
    /\ hpc = "ping" => (inflight = {} /\ pidx = Len(probeLog) + 1)
    /\ hpc = "reply" =>
          /\ inflight = {[port |-> ports[pidx], token |-> candidates[ci].csrfToken]}
          /\ pidx = Len(probeLog) + 1
    /\ got200 =>
          /\ hpc = "done"
          /\ result.found
          /\ result.connectPort = probeLog[Len(probeLog)]
          /\ result.csrfToken = candidates[ci].csrfToken
          /\ \A k \in 1..Len(probeLog) : probeLog[k] <= result.connectPort

\* The first of two listed ports answers 200: the second is never asked.
C4_Witness ==
    /\ hpc = "done"
    /\ got200
    /\ Len(ports) = 2
    /\ probeLog = <<ports[1]>>
    /\ result.connectPort = ports[1]

(***************************************************************************)
(* C5  Try all candidates.                                                 *)
(***************************************************************************)
\* C5: within one listing attempt verifyAndConnect is called on the
\* candidates in list order, every call before the last returned null, the
\* target returned is that of the first candidate whose call succeeded, and
\* the attempt is left for the next attempt or phase only after every
\* candidate has been tried.
C5_TryAllCandidates ==
    /\ \A k \in 1..Len(verifyLog) :
          /\ verifyLog[k].c = k
          /\ k <= Len(candidates)
          /\ k < Len(verifyLog) => verifyLog[k].ret = NoPort
    /\ hpc \in {"ports", "ping", "reply"} =>
          (ci = Len(verifyLog) + 1 /\ ci <= Len(candidates))
    /\ (hpc = "done" /\ result # NotFound) =>
          /\ Len(verifyLog) > 0
          /\ LastVerify.ret = result.connectPort
          /\ result.csrfToken = candidates[Len(verifyLog)].csrfToken
          /\ result.extensionPort = candidates[Len(verifyLog)].extensionPort
    /\ (hpc \in {"list", "keyword", "diag"} /\ Len(verifyLog) > 0) =>
          /\ Len(verifyLog) = Len(candidates)
          /\ LastVerify.ret = NoPort
          /\ hpc = "list" => (phase = "A" /\ i >= 1 /\ i < maxAttempts)
          /\ hpc = "keyword" => (phase = "B" /\ i = maxAttempts)
          /\ hpc = "diag" => phase = "B"

\* The first candidate's verification returned null, the second one's a port.
C5_Witness ==
    /\ hpc = "done"
    /\ result # NotFound
    /\ Len(verifyLog) = 2
    /\ Len(candidates) = 2

(***************************************************************************)
(* ReactorCore and the extension (Spec).  The initial state is that of     *)
(* activate() at its await: the handlers are registered and the first      *)
(* bootSystems call is waiting for scanEnvironment.  What scanEnvironment  *)
(* returns is one of the results SpecHunter can end with.                  *)
(***************************************************************************)
ScanResults ==
    { NotFound,
      [found |-> TRUE, extensionPort |-> 0, connectPort |-> 1, csrfToken |-> HEX],
      [found |-> TRUE, extensionPort |-> 0, connectPort |-> 2, csrfToken |-> HEX2] }

\* configService.getRefreshIntervalMs() under the default configuration.
DEFAULT_REFRESH_INTERVAL_MS == 120000

\* How a request of transmit ends: a body that is JSON (detail: its shape,
\* models: the percentage of quota left to each model it lists), a body that
\* is not (detail: its text), a socket error (detail: its code), or the
\* timeout.
Responses ==
    [kind : {"json"}, detail : {"status", "no userStatus", "model without label"},
     models : {<<100>>}]
      \cup [kind : {"text"}, detail : {"<html>", "Signal Lost"}]
      \cup [kind : {"error"}, detail : {"ECONNREFUSED", "ECONNRESET"}]
      \cup [kind : {"timeout"}, detail : {""}]

\* An error message is the sequence of the pieces it is concatenated from;
\* String.includes is evaluated piece by piece.
Includes(message, needle) ==
    \E k \in 1..Len(message) :
        \/ message[k] = needle
        \/ needle = "Signal Lost" /\ message[k] = "Signal Lost: Request timed out"
        \/ needle = "ECONNREFUSED" /\ message[k] = "connect ECONNREFUSED 127.0.0.1"

\* The message of the SyntaxError JSON.parse throws: engines differ in whether
\* it quotes the text that failed to parse.
SyntaxErrorMessage(text, quotes) ==
    IF quotes THEN <<"Unexpected token, ", text, " is not valid JSON">>
    ELSE <<"Unexpected token in JSON at position 0">>

\* The message of the error the socket emits.
SocketErrorMessage(code) ==
    CASE code = "ECONNREFUSED" -> <<"connect ECONNREFUSED 127.0.0.1">>
      [] code = "ECONNRESET"   -> <<"read ECONNRESET">>
      [] OTHER                 -> <<code>>

\* transmit: resolves with the parsed body or rejects with an Error.
transmit(id, resp, quotes) ==
    CASE resp.kind = "json" ->
            [ok |-> TRUE,
             raw |-> [src |-> id, shape |-> resp.detail, models |-> resp.models]]
      [] resp.kind = "text" ->
            [ok |-> FALSE,
             message |-> <<"Signal Corrupted: ">> \o SyntaxErrorMessage(resp.detail, quotes)]
      [] resp.kind = "error" ->
            [ok |-> FALSE,
             message |-> <<"Connection Failed: ">> \o SocketErrorMessage(resp.detail)]
      [] resp.kind = "timeout" ->
            [ok |-> FALSE, message |-> <<"Signal Lost: Request timed out">>]

\* A snapshot that reports the connection as down.
decodeSignalOffline(raw) ==
    [threw |-> FALSE,
     snapshot |-> [src |-> raw.src, isConnected |-> FALSE,
                   labelled |-> raw.shape # "model without label",
                   models |-> raw.models]]

\* decodeSignal: throws a TypeError on a response that is null or has no
\* userStatus, else returns a snapshot with isConnected: true.
decodeSignal(raw) ==
    IF raw.shape \in {"no userStatus", "null"}
    THEN [threw |-> TRUE, message |-> <<"Cannot read properties of undefined">>]
    ELSE [threw |-> FALSE,
          snapshot |-> [src |-> raw.src, isConnected |-> TRUE,
                        labelled |-> raw.shape # "model without label",
                        models |-> raw.models]]

\* The configuration the reactor reads: notifications on, the default
\* warning threshold, grouping on.
ConfigDefault ==
    [notificationEnabled |-> TRUE, warningThreshold |-> WARNING_DEFAULT,
     groupingEnabled |-> TRUE]

\* configService.getConfig(): the stored settings the notifiers read.
getConfig ==
    [notificationEnabled |-> notificationEnabled,
     warningThreshold |-> warningThreshold,
     criticalThreshold |-> criticalThreshold]

\* checkAndNotify's loop from the k-th model of the snapshot on; the modelId
\* of the k-th model is k.
RECURSIVE checkAndNotifyFrom(_, _, _, _)
checkAndNotifyFrom(models, k, exhausted, warning) ==
    IF k > Len(models) THEN [exhausted |-> exhausted, warning |-> warning]
    ELSE LET percentage == models[k]
             isExhausted == percentage = 0
             e1 == IF isExhausted THEN exhausted \cup {k} ELSE exhausted
             w1 == IF percentage > 0 /\ percentage <= getConfig.warningThreshold
                   THEN warning \cup {k} ELSE warning
             recovered == percentage > getConfig.warningThreshold
         IN  checkAndNotifyFrom(models, k + 1,
                                IF recovered THEN e1 \ {k} ELSE e1,
                                IF recovered THEN w1 \ {k} ELSE w1)

\* checkAndNotify: the two sets of notified models after it ran.
checkAndNotify(snapshot, exhausted, warning) ==
    IF ~getConfig.notificationEnabled
    THEN [exhausted |-> exhausted, warning |-> warning]
    ELSE checkAndNotifyFrom(snapshot.models, 1, exhausted, warning)

\* What one run of syncTelemetry does once transmit has settled: the values it
\* assigns (Undefined = not assigned), whether it reaches checkAndNotify, the
\* snapshots it hands to updateHandler, the messages it hands to errorHandler,
\* and whether it rejects.
SyncResult(raw, snap, checked, delivered, reported) ==
    [raw |-> raw, snap |-> snap, checked |-> checked, delivered |-> delivered,
     reported |-> reported, rejects |-> FALSE]

\* A syncTelemetry that calls updateHandler before it logs the summary.
syncTelemetryNotifiesEarly(id, resp, quotes) ==
    LET t == transmit(id, resp, quotes)
    IN  IF ~t.ok THEN SyncResult(Undefined, Undefined, FALSE, <<>>, <<t.message>>)
        ELSE LET d == decodeSignal(t.raw)
             IN  IF d.threw
                 THEN SyncResult(t.raw, Undefined, FALSE, <<>>, <<d.message>>)
                 ELSE IF ~d.snapshot.labelled
                 THEN SyncResult(t.raw, d.snapshot, FALSE, <<d.snapshot>>,
                                 <<<<"Cannot read properties of undefined">>>>)
                 ELSE SyncResult(t.raw, d.snapshot, TRUE, <<d.snapshot>>, <<>>)

\* syncTelemetry: the try block up to the first throw, then the catch block.
\* Both handlers are async functions, so calling them never throws.
syncTelemetry(id, resp, quotes) ==
    LET t == transmit(id, resp, quotes)
    IN  IF ~t.ok THEN SyncResult(Undefined, Undefined, FALSE, <<>>, <<t.message>>)
        ELSE LET d == decodeSignal(t.raw)
             IN  IF d.threw
                 THEN SyncResult(t.raw, Undefined, FALSE, <<>>, <<d.message>>)
                 ELSE IF ~d.snapshot.labelled
                 THEN SyncResult(t.raw, d.snapshot, FALSE, <<>>,
                                 <<<<"Cannot read properties of undefined">>>>)
                 ELSE SyncResult(t.raw, d.snapshot, TRUE, <<d.snapshot>>, <<>>)

\* A malfunction test that knows the timeout only.
IsConnectionLostTimeoutOnly(message) == Includes(message, "Signal Lost")

\* A malfunction test that knows the refused connection only.
IsConnectionLostRefusedOnly(message) == Includes(message, "ECONNREFUSED")

\* err.message.includes('ECONNREFUSED') || err.message.includes('Signal Lost')
IsConnectionLost(message) ==
    Includes(message, "ECONNREFUSED") \/ Includes(message, "Signal Lost")

\* ReactorCore.createOfflineSnapshot
createOfflineSnapshot ==
    [src |-> 0, isConnected |-> FALSE, labelled |-> TRUE, models |-> <<>>]

Init ==
    /\ port = 0
    /\ token = ""
    /\ pulseTimer = 0
    /\ timers = {}
    /\ timerPeriods = EmptyObject
    /\ currentInterval = 0
    /\ lastSnapshot = Undefined
    /\ lastRawResponse = Undefined
    /\ requests = {}
    /\ systemOnline = FALSE
    /\ autoRetryCount = 0
    /\ scans = 1
    /\ retryTimers = 0
    /\ hudView = Undefined
    /\ polls = 0
    /\ commands = 0
    /\ lastPoll = NoPoll
    /\ exhaustedNotifiedModels = {}
    /\ warningNotifiedModels = {}
    /\ lastCall = NoCall
    /\ HunterQuiet("linux")
    /\ ParseQuiet
    /\ SettingsQuiet

\* bootSystems up to its await, called with systemOnline = online.
BootSystems(online) == scans' = IF online THEN scans ELSE scans + 1

\* The body of a syncTelemetry call up to its await: the request is written
\* to the port, with the token, that the reactor holds at that moment.
SendRequest(p, tk) ==
    /\ polls < MaxPolls
    /\ polls' = polls + 1
    /\ requests' = requests \cup {[id |-> polls + 1, port |-> p, token |-> tk]}

\* A shutdown that forgets the timer without clearing it.
shutdownKeepsInterval ==
    /\ pulseTimer' = 0
    /\ UNCHANGED <<timers, timerPeriods>>

\* ReactorCore.shutdown
shutdown ==
    /\ timers' = timers \ {pulseTimer}
    /\ timerPeriods' = [t \in timers' |-> timerPeriods[t]]
    /\ pulseTimer' = 0

\* A startReactor that sets its timer without clearing the one it holds.
startReactorKeepsTimer(p, tk, interval) ==
    /\ currentInterval' = interval
    /\ SendRequest(p, tk)
    /\ LET n == CHOOSE n \in 1..(Cardinality(timers) + 1) : n \notin timers
       IN  /\ pulseTimer' = n
           /\ timers' = timers \cup {n}
           /\ timerPeriods' = [t \in timers' |->
                                  IF t = n THEN interval ELSE timerPeriods[t]]

\* ReactorCore.startReactor on a reactor engaged to port p with token tk:
\* shutdown, an immediate syncTelemetry, setInterval.
startReactor(p, tk, interval) ==
    /\ currentInterval' = interval
    /\ SendRequest(p, tk)
    /\ LET cleared == timers \ {pulseTimer}
           n == CHOOSE n \in 1..(Cardinality(cleared) + 1) : n \notin cleared
       IN  /\ pulseTimer' = n
           /\ timers' = cleared \cup {n}
           /\ timerPeriods' = [t \in timers' |->
                                  IF t = n THEN interval ELSE timerPeriods[t]]

\* An engage that takes the port and keeps the token it has.
engagePortOnly(p, tk) ==
    /\ port' = p
    /\ UNCHANGED token

\* ReactorCore.engage
engage(p, tk) ==
    /\ port' = p
    /\ token' = tk

\* An automatic retry that stays armed after the last one allowed.
AutoRetryLeftOneMore == autoRetryCount <= MAX_AUTO_RETRY

\* The test bootSystems makes before it arms the auto-retry timer.
AutoRetryLeft == autoRetryCount < MAX_AUTO_RETRY

\* scanEnvironment resolves with info and bootSystems goes on: engage and
\* startReactor, or the auto-retry timer, or handleOfflineState.
bootSystemsResumes(info) ==
    /\ scans > 0
    /\ IF info # NotFound
       THEN /\ engage(info.connectPort, info.csrfToken)
            /\ startReactor(info.connectPort, info.csrfToken,
                            DEFAULT_REFRESH_INTERVAL_MS)
            /\ systemOnline' = TRUE
            /\ autoRetryCount' = 0
            /\ UNCHANGED <<retryTimers, hudView>>
       ELSE /\ IF AutoRetryLeft
               THEN /\ autoRetryCount' = autoRetryCount + 1
                    /\ retryTimers' = retryTimers + 1
                    /\ UNCHANGED hudView
               ELSE /\ autoRetryCount' = 0
                    /\ hudView' = createOfflineSnapshot
                    /\ UNCHANGED retryTimers
            /\ UNCHANGED <<port, token, pulseTimer, timers, timerPeriods, currentInterval,
                           requests, systemOnline, polls>>
    /\ scans' = scans - 1
    /\ lastPoll' = NoPoll
    /\ lastCall' = NoCall
    /\ UNCHANGED <<lastSnapshot, lastRawResponse, notifyVars, commands, parseVars,
                   hunterVars>>

ScanDone ==
    /\ \E info \in ScanResults : bootSystemsResumes(info)
    /\ UNCHANGED settingsVars

\* The auto-retry timer fires: bootSystems().
RetryTimerFires ==
    /\ retryTimers > 0
    /\ retryTimers' = retryTimers - 1
    /\ BootSystems(systemOnline)
    /\ lastPoll' = NoPoll
    /\ lastCall' = NoCall
    /\ UNCHANGED <<reactorVars, notifyVars, systemOnline, autoRetryCount, hudView,
                   polls, commands, parseVars, hunterVars, settingsVars>>

\* agCockpit.retry (and the dashboard's retry message).
RetryCommand ==
    /\ commands < MaxCommands
    /\ commands' = commands + 1
    /\ systemOnline' = FALSE
    /\ BootSystems(FALSE)
    /\ lastPoll' = NoPoll
    /\ lastCall' = NoCall
    /\ UNCHANGED <<reactorVars, notifyVars, autoRetryCount, retryTimers, hudView,
                   polls, parseVars, hunterVars, settingsVars>>

\* An interval timer that is set fires: syncTelemetry().
PulseTick ==
    /\ timers # {}
    /\ SendRequest(port, token)
    /\ lastPoll' = NoPoll
    /\ lastCall' = NoCall
    /\ UNCHANGED <<port, token, pulseTimer, timers, timerPeriods, currentInterval, lastSnapshot,
                   lastRawResponse, notifyVars, extensionVars, commands, parseVars,
                   hunterVars, settingsVars>>

\* agCockpit.refresh (and the dashboard's refresh message): syncTelemetry().
RefreshCommand ==
    /\ SendRequest(port, token)
    /\ lastPoll' = NoPoll
    /\ lastCall' = NoCall
    /\ UNCHANGED <<port, token, pulseTimer, timers, timerPeriods, currentInterval, lastSnapshot,
                   lastRawResponse, notifyVars, extensionVars, commands, parseVars,
                   hunterVars, settingsVars>>

\* The request of one syncTelemetry call settles, with one of the responses
\* R, and the call runs to its end, the handler it calls included:
\* onTelemetry renders the snapshot; onMalfunction either goes offline and
\* calls bootSystems, or shows the error notice.
PollSettles(R) ==
    \E r \in requests : \E resp \in R :
      \E quotes \in IF resp.kind = "text" THEN BOOLEAN ELSE {FALSE} :
        LET run == syncTelemetry(r.id, resp, quotes)
            lost == \E k \in 1..Len(run.reported) : IsConnectionLost(run.reported[k])
            shown == \E k \in 1..Len(run.reported) : ~IsConnectionLost(run.reported[k])
            notified == IF run.checked
                        THEN checkAndNotify(run.snap, exhaustedNotifiedModels,
                                            warningNotifiedModels)
                        ELSE [exhausted |-> exhaustedNotifiedModels,
                              warning |-> warningNotifiedModels]
        IN  /\ requests' = requests \ {r}
            /\ lastRawResponse' = IF run.raw # Undefined THEN run.raw ELSE lastRawResponse
            /\ lastSnapshot' = IF run.snap # Undefined THEN run.snap ELSE lastSnapshot
            /\ exhaustedNotifiedModels' = notified.exhausted
            /\ warningNotifiedModels' = notified.warning
            /\ hudView' = IF run.delivered # <<>> THEN run.delivered[1] ELSE hudView
            /\ systemOnline' = IF lost THEN FALSE ELSE systemOnline
            /\ BootSystems(~lost)
            /\ lastPoll' = [id |-> r.id, kind |-> resp.kind, detail |-> resp.detail,
                            sentTo |-> r.port,
                            delivered |-> run.delivered, reported |-> run.reported,
                            rejected |-> run.rejects,
                            scanStarted |-> lost, notice |-> shown,
                            portBefore |-> port, tokenBefore |-> token,
                            timerBefore |-> pulseTimer]
    /\ lastCall' = NoCall
    /\ UNCHANGED <<port, token, pulseTimer, timers, timerPeriods, currentInterval, autoRetryCount,
                   retryTimers, polls, commands, parseVars, hunterVars, settingsVars>>

Next ==
    \/ ScanDone
    \/ RetryTimerFires
    \/ RetryCommand
    \/ PulseTick
    \/ RefreshCommand
    \/ PollSettles(Responses)

Spec == Init /\ [][Next]_vars

\* A syncTelemetry call has just run to its end.
PollEnded == lastPoll # NoPoll

\* The response was JSON of the expected shape: the poll succeeded.
PollSucceeded == PollEnded /\ lastPoll.kind = "json" /\ lastPoll.detail = "status"

\* The target the reactor holds is the one it held before the poll ended.
TargetRetained == port = lastPoll.portBefore /\ token = lastPoll.tokenBefore

\* The interval timer is the one that was set before the poll ended.
TimerRetained ==
    /\ pulseTimer = lastPoll.timerBefore
    /\ pulseTimer # 0 => pulseTimer \in timers

(***************************************************************************)
(* C6  The latest snapshot is the one delivered.                           *)
(***************************************************************************)
\* C6: when a syncTelemetry call has succeeded, getLatestSnapshot() returns
\* the snapshot that call handed to the telemetry subscriber, a snapshot
\* decoded from that call's response and with isConnected = true.
C6_LatestIsDelivered ==
    PollSucceeded =>
        /\ lastPoll.delivered = <<lastSnapshot>>
        /\ hudView = lastSnapshot
        /\ lastSnapshot.src = lastPoll.id
        /\ lastSnapshot.isConnected

\* The second of two calls succeeds while the snapshot cached before it was
\* that of the first.
C6_Witness ==
    /\ PollSucceeded
    /\ lastPoll.id = 2
    /\ lastRawResponse.src = 2
    /\ lastSnapshot.src = 2

(***************************************************************************)
(* C7  Refused and reset connections.                                      *)
(***************************************************************************)
\* The malfunction handler went offline and called bootSystems, which started
\* a scan, and showed no error notice.
RescannedAtOnce ==
    /\ lastPoll.scanStarted
    /\ ~lastPoll.notice
    /\ ~systemOnline
    /\ scans > 0

\* The malfunction handler showed the error notice and started no scan.
ShownAsError == lastPoll.notice /\ ~lastPoll.scanStarted

C9_Original ==
    (PollEnded /\ lastPoll.kind = "text") =>
        /\ Len(lastPoll.reported) = 1
        /\ Head(lastPoll.reported)[1] = "Signal Corrupted: "
        /\ TargetRetained
        /\ TimerRetained
        /\ ~lastPoll.scanStarted

(***************************************************************************)
(* C10  Exactly one outcome per poll.                                      *)
(***************************************************************************)
\* C10: every syncTelemetry call ends in exactly one notification, the
\* telemetry callback if the poll succeeded and the malfunction callback
\* otherwise, and the call does not reject.
C10_ExactlyOneOutcome ==
    PollEnded =>
        /\ Len(lastPoll.delivered) + Len(lastPoll.reported) = 1
        /\ Len(lastPoll.delivered) = 1 <=> PollSucceeded
        /\ ~lastPoll.rejected

\* A response whose model has no label: the snapshot is already cached when
\* the summary throws, and the malfunction callback alone is called.
C10_Witness ==
    /\ PollEnded
    /\ lastPoll.kind = "json"
    /\ lastPoll.detail = "model without label"
    /\ lastSnapshot # Undefined
    /\ lastSnapshot.src = lastPoll.id
    /\ Len(lastPoll.reported) = 1

(***************************************************************************)
(* The reactor after a successful boot: polls, configuration changes,      *)
(* reprocess and shutdown.                                                 *)
(***************************************************************************)
\* What the endpoint may answer once the reactor runs: the quota of the model
\* at different levels, and the JSON body null.
QuotaResponses ==
    Responses
      \cup [kind : {"json"}, detail : {"status"}, models : {<<0>>, <<20>>}]
      \cup [kind : {"json"}, detail : {"null"}, models : {<<>>}]

\* The refresh intervals the configuration may hold, in milliseconds.
RefreshIntervals == {DEFAULT_REFRESH_INTERVAL_MS, 60000}

\* Whether JavaScript takes the cached response for true.
Truthy(raw) == raw # Undefined /\ raw.shape # "null"

\* ReactorCore.reprocess on the cached response raw and the cached snapshot
\* snap: the snapshot it assigns (Undefined = not assigned), the snapshots it
\* hands to updateHandler, and whether it throws.
reprocess(raw, snap) ==
    IF Truthy(raw)
    THEN LET d == decodeSignal(raw)
         IN  IF d.threw
             THEN [snap |-> Undefined, delivered |-> <<>>, threw |-> TRUE]
             ELSE [snap |-> d.snapshot, delivered |-> <<d.snapshot>>, threw |-> FALSE]
    ELSE IF snap # Undefined
    THEN [snap |-> Undefined, delivered |-> <<snap>>, threw |-> FALSE]
    ELSE [snap |-> Undefined, delivered |-> <<>>, threw |-> FALSE]

\* A call of reactor.reprocess() and the onTelemetry handler it calls. The
\* record kept of the call holds the state the call found.
ReprocessCall ==
    LET run == reprocess(lastRawResponse, lastSnapshot)
    IN  /\ lastSnapshot' = IF run.snap # Undefined THEN run.snap ELSE lastSnapshot
        /\ hudView' = IF run.delivered # <<>> THEN run.delivered[1] ELSE hudView
        /\ lastCall' = [op |-> "reprocess",
                        delivered |-> run.delivered, threw |-> run.threw,
                        rawBefore |-> lastRawResponse, snapBefore |-> lastSnapshot,
                        hudBefore |-> hudView,
                        portBefore |-> port', tokenBefore |-> token',
                        timerBefore |-> pulseTimer', timersBefore |-> timers',
                        requestsBefore |-> requests', pollsBefore |-> polls',
                        exhaustedBefore |-> exhaustedNotifiedModels,
                        warningBefore |-> warningNotifiedModels]
        /\ UNCHANGED <<lastRawResponse, notifyVars>>

\* A command or dashboard message that, having stored a setting, calls
\* reactor.reprocess().
Reprocess ==
    /\ UNCHANGED <<port, token, pulseTimer, timers, timerPeriods, currentInterval, requests, polls>>
    /\ ReprocessCall
    /\ lastPoll' = NoPoll
    /\ UNCHANGED <<systemOnline, autoRetryCount, scans, retryTimers, commands,
                   parseVars, hunterVars, settingsVars>>

\* handleConfigChange, the configuration now holding the refresh interval
\* newInterval.
ConfigChange ==
    /\ \E newInterval \in RefreshIntervals :
          IF systemOnline /\ currentInterval # newInterval
          THEN startReactor(port, token, newInterval)
          ELSE UNCHANGED <<pulseTimer, timers, timerPeriods, currentInterval, requests, polls>>
    /\ UNCHANGED <<port, token>>
    /\ ReprocessCall
    /\ lastPoll' = NoPoll
    /\ UNCHANGED <<systemOnline, autoRetryCount, scans, retryTimers, commands,
                   parseVars, hunterVars, settingsVars>>

\* deactivate: reactor.shutdown().
Shutdown ==
    /\ shutdown
    /\ lastPoll' = NoPoll
    /\ lastCall' = [op |-> "shutdown", requestsBefore |-> requests]
    /\ UNCHANGED <<port, token, currentInterval, lastSnapshot, lastRawResponse,
                   requests, notifyVars, extensionVars, polls, commands, parseVars,
                   hunterVars, settingsVars>>

\* bootSystems has found a target: the reactor is engaged and started, its
\* first request is in flight.
InitReactor ==
    /\ \E info \in ScanResults \ {NotFound} :
          /\ port = info.connectPort
          /\ token = info.csrfToken
          /\ requests = {[id |-> 1, port |-> info.connectPort, token |-> info.csrfToken]}
    /\ pulseTimer = 1
    /\ timers = {1}
    /\ timerPeriods = [t \in {1} |-> DEFAULT_REFRESH_INTERVAL_MS]
    /\ currentInterval = DEFAULT_REFRESH_INTERVAL_MS
    /\ lastSnapshot = Undefined
    /\ lastRawResponse = Undefined
    /\ systemOnline = TRUE
    /\ autoRetryCount = 0
    /\ scans = 0
    /\ retryTimers = 0
    /\ hudView = Undefined
    /\ polls = 1
    /\ commands = 0
    /\ lastPoll = NoPoll
    /\ exhaustedNotifiedModels = {}
    /\ warningNotifiedModels = {}
    /\ lastCall = NoCall
    /\ HunterQuiet("linux")
    /\ ParseQuiet
    /\ SettingsQuiet

\* A discovery that onMalfunction starts is not followed here.
NextReactor ==
    \/ PulseTick
    \/ RefreshCommand
    \/ PollSettles(QuotaResponses)
    \/ Reprocess
    \/ ConfigChange
    \/ Shutdown

SpecReactor == InitReactor /\ [][NextReactor]_vars

(***************************************************************************)
(* C11  reprocess.                                                         *)
(***************************************************************************)
\* A reprocess call has just returned or thrown.
Reprocessed == lastCall.op = "reprocess"

\* The call found a cached response or a cached snapshot.
CachedDataExists == Truthy(lastCall.rawBefore) \/ lastCall.snapBefore # Undefined

\* The call sent no request and left the cached response, the target, the
\* timer and the sets of notified models as they were.
ReprocessFrame ==
    /\ requests = lastCall.requestsBefore
    /\ polls = lastCall.pollsBefore
    /\ lastRawResponse = lastCall.rawBefore
    /\ port = lastCall.portBefore
    /\ token = lastCall.tokenBefore
    /\ pulseTimer = lastCall.timerBefore
    /\ timers = lastCall.timersBefore
    /\ exhaustedNotifiedModels = lastCall.exhaustedBefore
    /\ warningNotifiedModels = lastCall.warningBefore

\* C11: reprocess() issues no request and leaves the cached raw payload, the
\* target, the poll timer and the notification sets unchanged; when cached
\* data exists it emits exactly one snapshot event, whose model values are
\* those decoded from the cached raw payload; when none exists it emits
\* nothing and changes no state.
C11_Original ==
    Reprocessed =>
        /\ ReprocessFrame
        /\ CachedDataExists =>
              /\ ~lastCall.threw
              /\ Len(lastCall.delivered) = 1
              /\ Truthy(lastCall.rawBefore) =>
                    /\ ~decodeSignal(lastCall.rawBefore).threw
                    /\ lastCall.delivered[1].models =
                          decodeSignal(lastCall.rawBefore).snapshot.models
        /\ ~CachedDataExists =>
              /\ lastCall.delivered = <<>>
              /\ lastSnapshot = lastCall.snapBefore
              /\ hudView = lastCall.hudBefore

(***************************************************************************)
(* C12  shutdown.                                                          *)
(***************************************************************************)
\* shutdown() has returned and startReactor has not been called since.
Stopped == pulseTimer = 0

\* C12: after shutdown() has returned and until the next startReactor, no
\* interval timer is set and no timer-driven syncTelemetry begins; shutdown
\* leaves the requests in flight as they are, each of them can still settle,
\* and one that settles with a good response still updates the latest
\* snapshot and is handed to the telemetry subscriber.
C12_StoppedTimerLetsPollsFinish ==
    /\ [](Stopped => timers = {})
    /\ [][Stopped => ~PulseTick]_vars
    /\ [](lastCall.op = "shutdown" => requests = lastCall.requestsBefore)
    /\ []((Stopped /\ requests # {}) => ENABLED PollSettles(QuotaResponses))
    /\ []((Stopped /\ PollSucceeded) =>
            /\ lastPoll.delivered = <<lastSnapshot>>
            /\ hudView = lastSnapshot
            /\ lastSnapshot.src = lastPoll.id)

\* The request startReactor sent at boot, the only one ever sent, settles
\* with a good response after the shutdown.
C12_Witness ==
    /\ Stopped
    /\ PollSucceeded
    /\ polls = 1
    /\ lastPoll.id = 1
    /\ lastPoll.timerBefore = 0
    /\ lastSnapshot.src = 1
    /\ hudView = lastSnapshot

(***************************************************************************)
(* Grouping: calculateGroupMappings.                                       *)
(***************************************************************************)
\* A modelId is the sequence of the pieces its text has between underscores:
\* <<"A", "B">> is the id "A_B".
ModelIds == {<<"A">>, <<"B">>, <<"C">>, <<"A", "B">>}

\* The place of a piece in the order of JavaScript's string comparison.
PieceRank(piece) ==
    CASE piece = "A" -> 1
      [] piece = "B" -> 2
      [] piece = "C" -> 3

\* Whether the id x comes before the id y in the order Array.sort() uses.
RECURSIVE IdBefore(_, _)
IdBefore(x, y) ==
    IF x = <<>> THEN y # <<>>
    ELSE IF y = <<>> THEN FALSE
    ELSE IF Head(x) = Head(y) THEN IdBefore(Tail(x), Tail(y))
    ELSE PieceRank(Head(x)) < PieceRank(Head(y))

RECURSIVE InsertId(_, _)
InsertId(x, ids) ==
    IF ids = <<>> THEN <<x>>
    ELSE IF IdBefore(x, Head(ids)) THEN <<x>> \o ids
    ELSE <<Head(ids)>> \o InsertId(x, Tail(ids))

\* modelIds.sort()
RECURSIVE SortIds(_)
SortIds(ids) == IF ids = <<>> THEN <<>> ELSE InsertId(Head(ids), SortIds(Tail(ids)))

\* modelIds.join('_')
RECURSIVE JoinIds(_)
JoinIds(ids) == IF ids = <<>> THEN <<>> ELSE Head(ids) \o JoinIds(Tail(ids))

\* remainingFraction is held in units of 1e-7; toFixed(6) rounds it to units
\* of 1e-6.
toFixed6(fraction) == (fraction + 5) \div 10

\* Quota readings: a fraction and a reset time.
Quotas ==
    [remainingFraction : {5000000}, resetTime : {1, 2}]
      \cup [remainingFraction : {1000000, 1000004}, resetTime : {2}]

\* The models a snapshot may list.
SampleModels ==
    { [modelId |-> id, label |-> Head(id), remainingFraction |-> q.remainingFraction,
       resetTime |-> q.resetTime] : id \in ModelIds, q \in Quotas }

\* Whether the model's quotaInfo carries a remainingFraction.
HasFraction(model) == "remainingFraction" \in DOMAIN model

\* `${model.remainingFraction?.toFixed(6)}_${model.resetTime.getTime()}`
Fingerprint(model) ==
    <<IF HasFraction(model) THEN <<toFixed6(model.remainingFraction)>> ELSE <<>>,
      model.resetTime>>

\* The first loop of calculateGroupMappings from the k-th model on: groupMap
\* holds, in insertion order, each fingerprint with the modelIds pushed to it.
RECURSIVE FingerprintGroups(_, _, _)
FingerprintGroups(models, k, groupMap) ==
    IF k > Len(models) THEN groupMap
    ELSE LET fp == Fingerprint(models[k])
             id == models[k].modelId
             pushed ==
                 IF \E g \in 1..Len(groupMap) : groupMap[g].fingerprint = fp
                 THEN [g \in 1..Len(groupMap) |->
                          IF groupMap[g].fingerprint = fp
                          THEN [groupMap[g] EXCEPT !.modelIds = Append(@, id)]
                          ELSE groupMap[g]]
                 ELSE Append(groupMap, [fingerprint |-> fp, modelIds |-> <<id>>])
         IN  FingerprintGroups(models, k + 1, pushed)

\* The second loop from the g-th group on: every modelId of the group is
\* mapped to the group's sorted, joined ids; a later entry replaces an earlier.
RECURSIVE StableMappings(_, _, _)
StableMappings(groupMap, g, mappings) ==
    IF g > Len(groupMap) THEN mappings
    ELSE LET modelIds == groupMap[g].modelIds
             members == {modelIds[n] : n \in 1..Len(modelIds)}
             stableGroupId == JoinIds(SortIds(modelIds))
         IN  StableMappings(groupMap, g + 1,
                 [id \in DOMAIN mappings \cup members |->
                     IF id \in members THEN stableGroupId ELSE mappings[id]])

\* A recomputation that keeps what the persisted membership says.
calculateGroupMappingsKeepsSaved(models) ==
    LET fresh == StableMappings(FingerprintGroups(models, 1, <<>>), 1, EmptyObject)
    IN  [id \in DOMAIN fresh |->
            IF id \in DOMAIN groupMappings THEN groupMappings[id] ELSE fresh[id]]

\* ReactorCore.calculateGroupMappings
calculateGroupMappings(models) ==
    StableMappings(FingerprintGroups(models, 1, <<>>), 1, EmptyObject)

(***************************************************************************)
(* Grouping: the grouping step of decodeSignal.                            *)
(***************************************************************************)
\* remainingPercentage ?? 0, in units of 1e-5 percent (remainingFraction,
\* held in units of 1e-7, times 100).
PercentageOrZero(model) == IF HasFraction(model) THEN model.remainingFraction ELSE 0

\* isExhausted: remainingFraction === 0
IsExhausted(model) == HasFraction(model) /\ model.remainingFraction = 0

\* Whether the Map, held as the sequence of its entries in insertion order,
\* has the key.
MapHas(map, key) == \E n \in 1..Len(map) : map[n].groupId = key

\* Map.set(key, [model]): the entry of an existing key is replaced in place.
MapSet(map, key, model) ==
    IF MapHas(map, key)
    THEN [n \in 1..Len(map) |->
             IF map[n].groupId = key THEN [groupId |-> key, models |-> <<model>>]
             ELSE map[n]]
    ELSE Append(map, [groupId |-> key, models |-> <<model>>])

\* if (!has(key)) set(key, []); get(key).push(model)
MapPush(map, key, model) ==
    IF MapHas(map, key)
    THEN [n \in 1..Len(map) |->
             IF map[n].groupId = key
             THEN [map[n] EXCEPT !.models = Append(@, model)]
             ELSE map[n]]
    ELSE Append(map, [groupId |-> key, models |-> <<model>>])

\* const groupId = savedMappings[model.modelId]; if (groupId)
HasGroup(savedMappings, id) == id \in DOMAIN savedMappings /\ savedMappings[id] # <<>>

\* const customName = customNames[model.modelId]; if (customName)
HasName(customNames, id) == id \in DOMAIN customNames /\ customNames[id] # ""

\* The bucketing loops of the grouping step, from the k-th model on.
RECURSIVE Bucket(_, _, _, _)
Bucket(models, k, savedMappings, groupMap) ==
    IF k > Len(models) THEN groupMap
    ELSE LET model == models[k]
             hasSavedMappings == DOMAIN savedMappings # {}
         IN  Bucket(models, k + 1, savedMappings,
                    IF hasSavedMappings /\ HasGroup(savedMappings, model.modelId)
                    THEN MapPush(groupMap, savedMappings[model.modelId], model)
                    ELSE MapSet(groupMap, model.modelId, model))

\* nameVotes after the members from the k-th on have voted: the names in the
\* order they were first met, each with its count.
RECURSIVE NameVotes(_, _, _, _)
NameVotes(groupModels, k, customNames, nameVotes) ==
    IF k > Len(groupModels) THEN nameVotes
    ELSE LET id == groupModels[k].modelId
             voted ==
                 IF ~HasName(customNames, id) THEN nameVotes
                 ELSE IF \E n \in 1..Len(nameVotes) : nameVotes[n].name = customNames[id]
                 THEN [n \in 1..Len(nameVotes) |->
                          IF nameVotes[n].name = customNames[id]
                          THEN [nameVotes[n] EXCEPT !.votes = @ + 1]
                          ELSE nameVotes[n]]
                 ELSE Append(nameVotes, [name |-> customNames[id], votes |-> 1])
         IN  NameVotes(groupModels, k + 1, customNames, voted)

\* A choice that lets a later name with as many votes win.
MostVotedLast(nameVotes, n, maxVotes, groupName) ==
    IF nameVotes = <<>> THEN groupName
    ELSE LET most == CHOOSE m \in 1..Len(nameVotes) :
                        \A o \in 1..Len(nameVotes) :
                            \/ nameVotes[o].votes < nameVotes[m].votes
                            \/ nameVotes[o].votes = nameVotes[m].votes /\ o <= m
         IN  nameVotes[most].name

\* The loop that picks the name with the most votes: votes > maxVotes.
RECURSIVE MostVoted(_, _, _, _)
MostVoted(nameVotes, n, maxVotes, groupName) ==
    IF n > Len(nameVotes) THEN groupName
    ELSE IF nameVotes[n].votes > maxVotes
    THEN MostVoted(nameVotes, n + 1, nameVotes[n].votes, nameVotes[n].name)
    ELSE MostVoted(nameVotes, n + 1, maxVotes, groupName)

\* The name of a group: [custom |-> name], [label |-> the model's label] or
\* [ordinal |-> n] for `Group ${n}`.
GroupName(groupModels, groupIndex, customNames) ==
    LET groupName == MostVoted(NameVotes(groupModels, 1, customNames, <<>>), 1, 0, "")
    IN  IF groupName # "" THEN [custom |-> groupName]
        ELSE IF Len(groupModels) = 1 THEN [label |-> groupModels[1].label]
        ELSE [ordinal |-> groupIndex]

\* Math.min over a non-empty list of numbers.
RECURSIVE MinOf(_)
MinOf(numbers) ==
    IF Len(numbers) = 1 THEN numbers[1]
    ELSE LET rest == MinOf(Tail(numbers))
         IN  IF Head(numbers) < rest THEN Head(numbers) ELSE rest

\* A minimum that leaves out the members without a reported fraction.
MinPercentageOfReported(groupModels) ==
    LET reported == SelectSeq(groupModels, HasFraction)
    IN  IF reported = <<>> THEN 0
        ELSE MinOf([k \in 1..Len(reported) |-> reported[k].remainingFraction])

\* Math.min(...groupModels.map(m => m.remainingPercentage ?? 0))
MinPercentage(groupModels) ==
    MinOf([k \in 1..Len(groupModels) |-> PercentageOrZero(groupModels[k])])

\* The QuotaGroup pushed for the n-th entry of groupMap.
QuotaGroup(entry, groupIndex, customNames) ==
    [groupId |-> entry.groupId,
     groupName |-> GroupName(entry.models, groupIndex, customNames),
     models |-> entry.models,
     remainingPercentage |-> MinPercentage(entry.models),
     isExhausted |-> \E k \in 1..Len(entry.models) : IsExhausted(entry.models[k])]

\* modelIndexMap.get(id): the last index at which the list holds the id.
ModelIndex(models, id) ==
    CHOOSE k \in 1..Len(models) :
        /\ models[k].modelId = id
        /\ \A later \in (k + 1)..Len(models) : models[later].modelId # id

\* The least index of a member of the group.
MinIndex(models, group) ==
    MinOf([k \in 1..Len(group.models) |-> ModelIndex(models, group.models[k].modelId)])

\* groups.sort by the least member index; the sort is stable.
RECURSIVE InsertGroup(_, _, _)
InsertGroup(models, group, sorted) ==
    IF sorted = <<>> THEN <<group>>
    ELSE IF MinIndex(models, group) < MinIndex(models, Head(sorted))
    THEN <<group>> \o sorted
    ELSE <<Head(sorted)>> \o InsertGroup(models, group, Tail(sorted))

RECURSIVE SortGroups(_, _)
SortGroups(models, unsorted) ==
    IF unsorted = <<>> THEN <<>>
    ELSE InsertGroup(models, unsorted[Len(unsorted)],
                     SortGroups(models, SubSeq(unsorted, 1, Len(unsorted) - 1)))

\* The grouping step of decodeSignal: the groups of the snapshot (Undefined
\* when grouping is off).
GroupingStep(models, savedMappings, customNames) ==
    IF ~ConfigDefault.groupingEnabled THEN Undefined
    ELSE LET groupMap == Bucket(models, 1, savedMappings, <<>>)
         IN  SortGroups(models,
                        [n \in 1..Len(groupMap) |->
                            QuotaGroup(groupMap[n], n, customNames)])

\* The grouping step under a configuration whose groupingEnabled is enabled.
GroupingStepWhen(enabled, models, savedMappings, customNames) ==
    IF ~enabled THEN Undefined
    ELSE GroupingStep(models, savedMappings, customNames)

\* The lists of models a snapshot may hold.
ModelLists == SeqsUpTo(SampleModels, MaxModels) \ {<<>>}

\* Memberships a former run may have persisted.
SavedMappings ==
    {EmptyObject, [id \in {<<"A">>, <<"C">>} |-> <<"A", "C">>]}

InitRecompute ==
    /\ snapModels \in ModelLists
    /\ groupMappings \in SavedMappings
    /\ groupingCustomNames = EmptyObject
    /\ groups = <<>>
    /\ recomputed = <<>>
    /\ GroupConfigDefault
    /\ ThresholdsQuiet
    /\ BootQuiet
    /\ AlertsQuiet
    /\ ParseQuiet
    /\ HunterQuiet("linux")
    /\ CockpitQuiet

\* The dashboard's autoGroup message: the membership is recomputed from the
\* latest snapshot and persisted, and reprocess groups the snapshot anew.
AutoGroup ==
    /\ Len(recomputed) < MaxRecompute
    /\ Len(snapModels) > 0
    /\ groupMappings' = calculateGroupMappings(snapModels)
    /\ recomputed' = Append(recomputed, [before |-> groupMappings,
                                         after |-> groupMappings'])
    /\ pinnedGroups' = <<>>
    /\ groups' = GroupingStepWhen(groupingEnabled, snapModels, groupMappings',
                                  groupingCustomNames)
    /\ UNCHANGED <<snapModels, groupingCustomNames, groupingEnabled,
                   groupingShowInStatusBar, groupOrder, thresholdVars, bootVars,
                   alertVars, parseVars, hunterVars, cockpitVars>>

NextRecompute == AutoGroup

SpecRecompute == InitRecompute /\ [][NextRecompute]_vars

\* autoGroup has run.
Recomputed == recomputed # <<>>

\* The modelIds, in list order, of the models that share the fingerprint of
\* the k-th model.
ClusterIds(models, k) ==
    LET same == SelectSeq(models, LAMBDA m : Fingerprint(m) = Fingerprint(models[k]))
    IN  [n \in 1..Len(same) |-> same[n].modelId]

\* No two models of the list have the same modelId.
DistinctModelIds(models) ==
    \A a, b \in 1..Len(models) : a # b => models[a].modelId # models[b].modelId

\* The lists that hold the models of the list in another order.
Reorderings(models) ==
    LET n == Len(models)
    IN  { [k \in 1..n |-> models[f[k]]] :
            f \in {f \in [1..n -> 1..n] : \A a, b \in 1..n : a # b => f[a] # f[b]} }

(***************************************************************************)
(* C13  Recomputation clusters by fingerprint.                             *)
(***************************************************************************)
\* C13: after a recomputation two models of the list have the same groupId
\* if and only if they have the same (remainingFraction rounded to 6
\* decimals, resetTime) fingerprint, and the groupId of each model is the
\* sorted, '_'-joined modelIds of its cluster.
C13_Original ==
    Recomputed =>
        \A a, b \in 1..Len(snapModels) :
            /\ (groupMappings[snapModels[a].modelId] = groupMappings[snapModels[b].modelId])
                  <=> (Fingerprint(snapModels[a]) = Fingerprint(snapModels[b]))
            /\ groupMappings[snapModels[a].modelId] =
                  JoinIds(SortIds(ClusterIds(snapModels, a)))

C15_Original ==
    Recomputed =>
        /\ \A perm \in Reorderings(snapModels) :
              \A k \in 1..Len(snapModels) :
                  calculateGroupMappings(perm)[snapModels[k].modelId] =
                      groupMappings[snapModels[k].modelId]
        /\ \A a, b \in 1..Len(snapModels) :
              LET idsA == ClusterIds(snapModels, a)
                  idsB == ClusterIds(snapModels, b)
              IN  {idsA[n] : n \in 1..Len(idsA)} = {idsB[n] : n \in 1..Len(idsB)}
                    => groupMappings[snapModels[a].modelId] =
                          groupMappings[snapModels[b].modelId]

\* The models a snapshot may list: with a fraction of 0 or 0.5, or without.
GroupSampleModels ==
    { [modelId |-> id, label |-> Head(id), resetTime |-> 1] : id \in ModelIds \ {<<"A", "B">>} }
      \cup { [modelId |-> id, label |-> Head(id), resetTime |-> 1, remainingFraction |-> f] :
               id \in ModelIds \ {<<"A", "B">>}, f \in {0, 5000000} }

\* Memberships an earlier autoGroup may have persisted: none, A with B, all
\* three together.
GroupSavedMappings ==
    { EmptyObject,
      [id \in {<<"A">>, <<"B">>} |-> <<"A", "B">>],
      [id \in {<<"A">>, <<"B">>, <<"C">>} |-> <<"A", "B", "C">>] }

\* Custom names renameGroup may have stored.
GroupCustomNames ==
    { EmptyObject,
      <<"A">> :> "Foo",
      <<"A">> :> "Foo" @@ <<"B">> :> "Bar",
      <<"A">> :> "Bar" @@ <<"B">> :> "Foo",
      <<"A">> :> "Bar" @@ <<"B">> :> "Foo" @@ <<"C">> :> "Foo",
      <<"A">> :> "Foo" @@ <<"B">> :> "" @@ <<"C">> :> "Bar" }

InitGroups ==
    /\ snapModels \in SeqsUpTo(GroupSampleModels, MaxModels) \ {<<>>}
    /\ groupMappings \in GroupSavedMappings
    /\ groupingCustomNames \in GroupCustomNames
    /\ groups = <<>>
    /\ recomputed = <<>>
    /\ GroupConfigDefault
    /\ ThresholdsQuiet
    /\ BootQuiet
    /\ AlertsQuiet
    /\ ParseQuiet
    /\ HunterQuiet("linux")
    /\ CockpitQuiet

\* decodeSignal, of a poll or of reprocess, groups the models of the response
\* under the configuration.
DecodeGroups ==
    /\ groups' = GroupingStep(snapModels, groupMappings, groupingCustomNames)
    /\ UNCHANGED <<snapModels, groupMappings, groupingCustomNames, recomputed,
                   groupingEnabled, groupingShowInStatusBar, pinnedGroups, groupOrder,
                   thresholdVars, bootVars, alertVars, parseVars, hunterVars, cockpitVars>>

NextGroups == DecodeGroups

SpecGroups == InitGroups /\ [][NextGroups]_vars

\* A snapshot has been decoded and grouped.
Grouped == groups # <<>>

\* The members of the group g as a sequence of models.
Members(g) == groups[g].models

(***************************************************************************)
(* C16  Group metrics.                                                     *)
(***************************************************************************)
\* The members of the group g that report a percentage.
ReportingMembers(g) == SelectSeq(Members(g), HasFraction)

\* C16 as stated: the remainingPercentage of every group is the least of
\* its members' percentages, and the group is exhausted if and only if one
\* of its members is.
C16_Original ==
    Grouped =>
        \A g \in 1..Len(groups) :
            /\ ReportingMembers(g) # <<>> =>
                  /\ \E k \in 1..Len(ReportingMembers(g)) :
                        groups[g].remainingPercentage =
                            ReportingMembers(g)[k].remainingFraction
                  /\ \A k \in 1..Len(ReportingMembers(g)) :
                        groups[g].remainingPercentage <=
                            ReportingMembers(g)[k].remainingFraction
            /\ groups[g].isExhausted <=>
                  \E k \in 1..Len(Members(g)) : IsExhausted(Members(g)[k])

\* C16 (amended): the remainingPercentage of every group is the least of its
\* members' percentages, a member that reports no fraction counting as 0;
\* the group is exhausted if and only if one of its members reports the
\* fraction 0, so a group at 0 percent need not be exhausted.
C16_MinCountsMissingAsZero ==
    Grouped =>
        \A g \in 1..Len(groups) :
            /\ \E k \in 1..Len(Members(g)) :
                  groups[g].remainingPercentage = PercentageOrZero(Members(g)[k])
            /\ \A k \in 1..Len(Members(g)) :
                  groups[g].remainingPercentage <= PercentageOrZero(Members(g)[k])
            /\ ReportingMembers(g) # Members(g) => groups[g].remainingPercentage = 0
            /\ groups[g].isExhausted <=>
                  \E k \in 1..Len(Members(g)) :
                      HasFraction(Members(g)[k]) /\ Members(g)[k].remainingFraction = 0

\* A group of two members, one at 50 percent and one that reports no
\* fraction: the group stands at 0 percent and is not exhausted.
C16_Witness ==
    /\ Grouped
    /\ \E g \in 1..Len(groups) :
          /\ Len(Members(g)) = 2
          /\ \E k \in 1..2 : ~HasFraction(Members(g)[k])
          /\ \E k \in 1..2 :
                HasFraction(Members(g)[k]) /\ Members(g)[k].remainingFraction = 5000000
          /\ groups[g].remainingPercentage = 0
          /\ ~groups[g].isExhausted

(***************************************************************************)
(* C17  Group names.                                                       *)
(***************************************************************************)
\* The custom name the k-th member of the group g carries ("" for none).
NameOfMember(g, k) ==
    IF HasName(groupingCustomNames, Members(g)[k].modelId)
    THEN groupingCustomNames[Members(g)[k].modelId]
    ELSE ""

\* The names the members of the group g carry.
NamesCarried(g) == {NameOfMember(g, k) : k \in 1..Len(Members(g))} \ {""}

\* How many members of the group g carry the name.
VotesFor(g, name) == Cardinality({k \in 1..Len(Members(g)) : NameOfMember(g, k) = name})

\* The place of the first member of the group g that carries the name.
FirstCarrier(g, name) ==
    CHOOSE k \in 1..Len(Members(g)) :
        /\ NameOfMember(g, k) = name
        /\ \A earlier \in 1..(k - 1) : NameOfMember(g, earlier) # name

\* C17: a group of which a member carries a custom name is named by the
\* custom name most of its members carry, of several such names the one met
\* first in member order; otherwise a group of one member is named by that
\* model's label and a larger group by an ordinal placeholder.
C17_MajorityName ==
    Grouped =>
        \A g \in 1..Len(groups) :
            IF NamesCarried(g) # {}
            THEN \E name \in NamesCarried(g) :
                    /\ groups[g].groupName = [custom |-> name]
                    /\ \A other \in NamesCarried(g) \ {name} :
                          \/ VotesFor(g, other) < VotesFor(g, name)
                          \/ /\ VotesFor(g, other) = VotesFor(g, name)
                             /\ FirstCarrier(g, name) < FirstCarrier(g, other)
            ELSE IF Len(Members(g)) = 1
            THEN groups[g].groupName = [label |-> Members(g)[1].label]
            ELSE \E n \in 1..Len(snapModels) : groups[g].groupName = [ordinal |-> n]

\* A group of three members that carry Bar, Foo, Foo in this order is named
\* Foo.
C17_Witness ==
    /\ Grouped
    /\ \E g \in 1..Len(groups) :
          /\ Len(Members(g)) = 3
          /\ NameOfMember(g, 1) = "Bar"
          /\ NameOfMember(g, 2) = "Foo"
          /\ NameOfMember(g, 3) = "Foo"
          /\ groups[g].groupName = [custom |-> "Foo"]

(***************************************************************************)
(* C18  Models without a saved group.                                      *)
(***************************************************************************)
\* C18: every model of the list that has no entry in the persisted
\* membership is, in the grouped snapshot, a group of its own: a group with
\* the model's modelId as groupId and the model as only member.
C18_Original ==
    Grouped =>
        \A k \in 1..Len(snapModels) :
            ~HasGroup(groupMappings, snapModels[k].modelId) =>
                \E g \in 1..Len(groups) :
                    /\ groups[g].groupId = snapModels[k].modelId
                    /\ groups[g].models = <<snapModels[k]>>

(***************************************************************************)
(* Thresholds: the updateThresholds message and the two commands.          *)
(***************************************************************************)
\* The numbers a request may carry.
ThresholdInputs == {0, 4, 5, 10, 30, 50, 81}

\* What parseInt may make of the text typed into an input box.
BoxInputs == ThresholdInputs \cup {NaN}

\* The condition under which updateThresholds stores the values.
ThresholdsValid(warningVal, criticalVal) ==
    /\ criticalVal < warningVal
    /\ warningVal >= 5 /\ warningVal <= 80
    /\ criticalVal >= 1 /\ criticalVal <= 50

\* validateInput of setWarningThreshold, against the configuration read when
\* the command started: TRUE when it returns null.
WarningInputValid(num, config) ==
    /\ ~(num = NaN \/ num < 5 \/ num > 80)
    /\ ~(num <= config.criticalThreshold)

\* validateInput of setCriticalThreshold: TRUE when it returns null.
CriticalInputValid(num, config) ==
    /\ ~(num = NaN \/ num < 1 \/ num > 50)
    /\ ~(num >= config.warningThreshold)

\* configService.getConfig(): the thresholds as stored now.
StoredThresholds ==
    [warningThreshold |-> warningThreshold, criticalThreshold |-> criticalThreshold]

\* The record kept of a request: its kind, whether it was rejected, and for
\* a rejected one the thresholds stored when it was handled.
Request(kind, rejected) ==
    IF rejected
    THEN [kind |-> kind, rejected |-> TRUE, before |-> StoredThresholds]
    ELSE [kind |-> kind, rejected |-> FALSE]

InitThresholds ==
    /\ ThresholdsQuiet
    /\ BootQuiet
    /\ AlertsQuiet
    /\ snapModels = <<>>
    /\ groupMappings = EmptyObject
    /\ groupingCustomNames = EmptyObject
    /\ groups = <<>>
    /\ recomputed = <<>>
    /\ GroupConfigDefault
    /\ ParseQuiet
    /\ HunterQuiet("linux")
    /\ CockpitQuiet

\* The dashboard's updateThresholds message with the values it carries, up
\* to the end of its first awaited write: the values are checked and
\* warningThreshold is stored.
updateThresholdsWith(warningVal, criticalVal) ==
    /\ pendingCritical = <<>>
    /\ IF ThresholdsValid(warningVal, criticalVal)
       THEN /\ warningThreshold' = warningVal
            /\ pendingCritical' = <<criticalVal>>
            /\ lastRequest' = Request("updateThresholds", FALSE)
       ELSE /\ lastRequest' = Request("updateThresholds", TRUE)
            /\ UNCHANGED <<warningThreshold, pendingCritical>>
    /\ UNCHANGED <<criticalThreshold, warningBox, criticalBox, groupVars, bootVars, alertVars,
                   parseVars, hunterVars, cockpitVars>>

\* The dashboard's updateThresholds message.
UpdateThresholds ==
    /\ pendingCritical = <<>>
    /\ \E warningVal, criticalVal \in ThresholdInputs :
          updateThresholdsWith(warningVal, criticalVal)

\* The handler goes on to its second awaited write: criticalThreshold.
UpdateThresholdsEnds ==
    /\ pendingCritical # <<>>
    /\ criticalThreshold' = pendingCritical[1]
    /\ pendingCritical' = <<>>
    /\ lastRequest' = [kind |-> "none"]
    /\ UNCHANGED <<warningThreshold, warningBox, criticalBox, groupVars, bootVars, alertVars,
                   parseVars, hunterVars, cockpitVars>>

\* agCockpit.setWarningThreshold reads the configuration and opens its box.
SetWarningOpens ==
    /\ warningBox = <<>>
    /\ warningBox' = <<StoredThresholds>>
    /\ lastRequest' = [kind |-> "none"]
    /\ UNCHANGED <<warningThreshold, criticalThreshold, pendingCritical, criticalBox,
                   groupVars, bootVars, alertVars, parseVars, hunterVars, cockpitVars>>

\* The user types into the box: an input validateInput refuses cannot be
\* submitted, one it accepts is stored.
SetWarningSubmits ==
    /\ warningBox # <<>>
    /\ \E num \in BoxInputs :
          IF WarningInputValid(num, warningBox[1])
          THEN /\ warningThreshold' = num
               /\ warningBox' = <<>>
               /\ lastRequest' = Request("setWarningThreshold", FALSE)
          ELSE /\ lastRequest' = Request("setWarningThreshold", TRUE)
               /\ UNCHANGED <<warningThreshold, warningBox>>
    /\ UNCHANGED <<criticalThreshold, pendingCritical, criticalBox, groupVars,
                   bootVars, alertVars, parseVars, hunterVars, cockpitVars>>

\* agCockpit.setCriticalThreshold reads the configuration and opens its box.
SetCriticalOpens ==
    /\ criticalBox = <<>>
    /\ criticalBox' = <<StoredThresholds>>
    /\ lastRequest' = [kind |-> "none"]
    /\ UNCHANGED <<warningThreshold, criticalThreshold, pendingCritical, warningBox,
                   groupVars, bootVars, alertVars, parseVars, hunterVars, cockpitVars>>

SetCriticalSubmits ==
    /\ criticalBox # <<>>
    /\ \E num \in BoxInputs :
          IF CriticalInputValid(num, criticalBox[1])
          THEN /\ criticalThreshold' = num
               /\ criticalBox' = <<>>
               /\ lastRequest' = Request("setCriticalThreshold", FALSE)
          ELSE /\ lastRequest' = Request("setCriticalThreshold", TRUE)
               /\ UNCHANGED <<criticalThreshold, criticalBox>>
    /\ UNCHANGED <<warningThreshold, pendingCritical, warningBox, groupVars,
                   bootVars, alertVars, parseVars, hunterVars, cockpitVars>>

\* An input box is dismissed: showInputBox resolves with undefined.
BoxDismissed ==
    /\ \/ warningBox # <<>> /\ warningBox' = <<>> /\ UNCHANGED criticalBox
       \/ criticalBox # <<>> /\ criticalBox' = <<>> /\ UNCHANGED warningBox
    /\ lastRequest' = [kind |-> "none"]
    /\ UNCHANGED <<warningThreshold, criticalThreshold, pendingCritical, groupVars,
                   bootVars, alertVars, parseVars, hunterVars, cockpitVars>>

NextThresholds ==
    \/ UpdateThresholds
    \/ UpdateThresholdsEnds
    \/ SetWarningOpens
    \/ SetWarningSubmits
    \/ SetCriticalOpens
    \/ SetCriticalSubmits
    \/ BoxDismissed

SpecThresholds == InitThresholds /\ [][NextThresholds]_vars

(***************************************************************************)
(* C19  Threshold validity.                                                *)
(***************************************************************************)
\* C19: in every state of the stored configuration criticalThreshold <
\* warningThreshold, 5 <= warningThreshold <= 80 and 1 <= criticalThreshold
\* <= 50; a request that is rejected changes neither threshold.
C19_Original ==
    /\ criticalThreshold < warningThreshold
    /\ 5 <= warningThreshold /\ warningThreshold <= 80
    /\ 1 <= criticalThreshold /\ criticalThreshold <= 50
    /\ (lastRequest.kind # "none" /\ lastRequest.rejected) =>
          StoredThresholds = lastRequest.before

(***************************************************************************)
(* The boots, with their history (SpecBoot): Spec, where each              *)
(* scanEnvironment call that returns is counted.                           *)
(***************************************************************************)
\* scanEnvironment resolves and bootSystems goes on.  A call that arms no
\* retry timer after a null result is one that called handleOfflineState.
\* The history is kept for as long as no call has found a server.
BootScanDone ==
    /\ \E info \in ScanResults :
          /\ bootSystemsResumes(info)
          /\ allNotFound' = (allNotFound /\ info = NotFound)
          /\ offlineShown' = IF ~allNotFound' THEN 0
                              ELSE IF retryTimers' = retryTimers
                                   THEN offlineShown + 1
                                   ELSE offlineShown
    /\ discoveries' = IF allNotFound' THEN discoveries + 1 ELSE 0
    /\ UNCHANGED <<groupVars, thresholdVars, alertVars>>

NextBoot ==
    \/ BootScanDone
    \/ RetryTimerFires
    \/ RetryCommand
    \/ PulseTick
    \/ RefreshCommand
    \/ PollSettles(Responses)

SpecBoot == Init /\ [][NextBoot]_vars

(***************************************************************************)
(* C20  Discovery failure and automatic retry.                             *)
(***************************************************************************)
\* No discovery found a server, and nothing but the automatic retry has
\* booted: no retry command, and no poll that could end in a boot.
OnlyNotFound == allNotFound /\ commands = 0 /\ polls = 0

\* The boot has given up: 1 + MAX_AUTO_RETRY discoveries have returned.
GaveUp == OnlyNotFound /\ discoveries = 1 + MAX_AUTO_RETRY

\* While discoveries keep failing, one more is running or scheduled until
\* the last of the 1 + MAX_AUTO_RETRY has returned; the offline snapshot is
\* surfaced then, once, with no timer armed and the counter back at 0.
FailingBoot ==
    OnlyNotFound =>
        /\ discoveries <= 1 + MAX_AUTO_RETRY
        /\ IF discoveries < 1 + MAX_AUTO_RETRY
           THEN /\ scans + retryTimers = 1
                /\ autoRetryCount = discoveries
                /\ offlineShown = 0
                /\ hudView = Undefined
           ELSE /\ scans = 0 /\ retryTimers = 0
                /\ autoRetryCount = 0
                /\ offlineShown = 1
                /\ hudView = createOfflineSnapshot
                /\ ~hudView.isConnected

\* C20: while every discovery returns null and nothing but the automatic
\* retry boots, discovery runs 1 + MAX_AUTO_RETRY = 4 times, then the
\* offline snapshot is surfaced once, no retry is scheduled and
\* autoRetryCount is 0; always 0 <= autoRetryCount <= MAX_AUTO_RETRY; the
\* retry command starts a new discovery.
C20_AutoRetry ==
    /\ [](0 <= autoRetryCount /\ autoRetryCount <= MAX_AUTO_RETRY)
    /\ []FailingBoot
    /\ [][RetryCommand => scans' = scans + 1]_vars

\* The boot has given up and the retry command has started a discovery.
C20_Witness ==
    /\ allNotFound /\ commands = 1
    /\ discoveries = 1 + MAX_AUTO_RETRY
    /\ offlineShown = 1
    /\ scans = 1

(***************************************************************************)
(* Quota notices (SpecNotify): the reactor's checkAndNotify and the        *)
(* extension's checkAndNotifyQuota, over polls of a reactor that runs.     *)
(***************************************************************************)
\* The models a response lists; the modelId of the k-th is k.
NotifyModels == 1..MaxNotifyModels

\* The percentages of quota left that a response may report.
Percentages == {0, 5, 20, 100}

\* What the endpoint may answer: every quota of the models, or a body
\* without userStatus.
AlertResponses ==
    [kind : {"json"}, detail : {"status"}, models : [NotifyModels -> Percentages]]
      \cup [kind : {"json"}, detail : {"no userStatus"}, models : {<<>>}]

\* checkAndNotifyQuota's loop from the k-th model on: the keys it holds and
\* the notices it has shown, as <<modelId, notice>>.
RECURSIVE checkAndNotifyQuotaFrom(_, _, _, _)
checkAndNotifyQuotaFrom(models, k, notified, shown) ==
    IF k > Len(models) THEN [notified |-> notified, shown |-> shown]
    ELSE LET pct == models[k]
             critical == pct <= getConfig.criticalThreshold
             notifyKey == <<k, IF critical THEN "critical" ELSE "warning">>
         IN  IF notifyKey \in notified
             THEN checkAndNotifyQuotaFrom(models, k + 1, notified, shown)
             ELSE IF pct <= getConfig.criticalThreshold /\ pct > 0
             THEN checkAndNotifyQuotaFrom(models, k + 1,
                      (notified \ {<<k, "warning">>}) \cup {notifyKey},
                      shown \cup {<<k, "critical">>})
             ELSE IF pct <= getConfig.warningThreshold
                     /\ pct > getConfig.criticalThreshold
             THEN checkAndNotifyQuotaFrom(models, k + 1, notified \cup {notifyKey},
                                          shown \cup {<<k, "warning">>})
             ELSE IF pct > getConfig.warningThreshold
             THEN checkAndNotifyQuotaFrom(models, k + 1,
                      notified \ {<<k, "warning">>, <<k, "critical">>}, shown)
             ELSE checkAndNotifyQuotaFrom(models, k + 1, notified, shown)

\* checkAndNotifyQuota, which onTelemetry calls with each snapshot.
checkAndNotifyQuota(snapshot, notified) ==
    IF ~getConfig.notificationEnabled
    THEN [notified |-> notified, shown |-> {}]
    ELSE checkAndNotifyQuotaFrom(snapshot.models, 1, notified, {})

\* onTelemetry over the snapshots handed to updateHandler (at most one).
OnTelemetryNotices(delivered) ==
    IF delivered = <<>> THEN [notified |-> notifiedModels, shown |-> {}]
    ELSE checkAndNotifyQuota(delivered[1], notifiedModels)

\* The models of a snapshot that are above the warning threshold.
AboveThreshold(models) ==
    {k \in 1..Len(models) : models[k] > getConfig.warningThreshold}

\* One poll of the running reactor from its request to its end: syncTelemetry
\* with checkAndNotify, and onTelemetry with checkAndNotifyQuota.  The
\* reactor shows a notice for each model it adds to one of its sets.
NotifyPoll ==
    /\ \E resp \in AlertResponses :
          LET run == syncTelemetry(1, resp, FALSE)
              mine == IF run.checked
                      THEN checkAndNotify(run.snap, exhaustedNotifiedModels,
                                          warningNotifiedModels)
                      ELSE [exhausted |-> exhaustedNotifiedModels,
                            warning |-> warningNotifiedModels]
              theirs == OnTelemetryNotices(run.delivered)
              ofReactor ==
                  {<<k, "exhausted">> : k \in mine.exhausted \ exhaustedNotifiedModels}
                    \cup {<<k, "warning">> : k \in mine.warning \ warningNotifiedModels}
              shown == ofReactor \cup theirs.shown
              models == IF run.delivered = <<>> THEN <<>> ELSE run.delivered[1].models
          IN  /\ lastRawResponse' = IF run.raw # Undefined THEN run.raw ELSE lastRawResponse
              /\ lastSnapshot' = IF run.snap # Undefined THEN run.snap ELSE lastSnapshot
              /\ hudView' = IF run.delivered # <<>> THEN run.delivered[1] ELSE hudView
              /\ exhaustedNotifiedModels' = mine.exhausted
              /\ warningNotifiedModels' = mine.warning
              /\ notifiedModels' = theirs.notified
              /\ noticedSince' =
                    {n \in noticedSince \cup shown : n[1] \notin AboveThreshold(models)}
              /\ lastNotices' = [polled |-> TRUE, models |-> models, shown |-> shown,
                                 ofReactor |-> ofReactor,
                                 sinceBefore |-> noticedSince,
                                 enabled |-> notificationEnabled]
    /\ UNCHANGED <<notificationEnabled, alwaysEnabled>>
    /\ lastPoll' = NoPoll
    /\ lastCall' = NoCall
    /\ UNCHANGED <<port, token, pulseTimer, timers, timerPeriods, currentInterval, requests,
                   systemOnline, autoRetryCount, scans, retryTimers, polls, commands,
                   groupVars, thresholdVars, bootVars, parseVars, hunterVars>>

\* cockpit.notificationEnabled is stored as enabled: handleConfigChange calls
\* reactor.reprocess(), which hands the cached data to onTelemetry.
NotificationSetting ==
    /\ \E enabled \in BOOLEAN :
          /\ notificationEnabled' = enabled
          /\ alwaysEnabled' = (alwaysEnabled /\ enabled)
    /\ LET run == reprocess(lastRawResponse, lastSnapshot)
           theirs == IF run.delivered = <<>> \/ ~notificationEnabled'
                     THEN [notified |-> notifiedModels, shown |-> {}]
                     ELSE checkAndNotifyQuotaFrom(run.delivered[1].models, 1,
                                                  notifiedModels, {})
       IN  /\ ~run.threw
           /\ lastSnapshot' = IF run.snap # Undefined THEN run.snap ELSE lastSnapshot
           /\ hudView' = IF run.delivered # <<>> THEN run.delivered[1] ELSE hudView
           /\ notifiedModels' = theirs.notified
           /\ noticedSince' = noticedSince \cup theirs.shown
    /\ lastNotices' = NoNotices
    /\ lastPoll' = NoPoll
    /\ lastCall' = NoCall
    /\ UNCHANGED <<port, token, pulseTimer, timers, timerPeriods, currentInterval, requests,
                   lastRawResponse, notifyVars, systemOnline, autoRetryCount, scans,
                   retryTimers, polls, commands, groupVars, thresholdVars, bootVars,
                   parseVars, hunterVars>>

NextNotify ==
    \/ NotifyPoll
    \/ NotificationSetting

SpecNotify == InitReactor /\ [][NextNotify]_vars

(***************************************************************************)
(* C21  Quota notifications fire once per episode.                         *)
(***************************************************************************)
\* A poll has just ended with a snapshot, notifications on since the start.
PolledEnabled == lastNotices.polled /\ lastNotices.models # <<>> /\ alwaysEnabled

\* The poll that has just ended showed a low-quota warning for model k
\* exactly when 0 < percentage <= warningThreshold and none was shown since
\* the model was last above the threshold, and an exhausted notice exactly
\* when the model is exhausted and none was shown since.
OncePerEpisode(shown) ==
    \A k \in 1..Len(lastNotices.models) :
        LET percentage == lastNotices.models[k]
        IN  /\ <<k, "warning">> \in shown <=>
                  /\ 0 < percentage /\ percentage <= warningThreshold
                  /\ <<k, "warning">> \notin lastNotices.sinceBefore
            /\ <<k, "exhausted">> \in shown <=>
                  /\ percentage = 0
                  /\ <<k, "exhausted">> \notin lastNotices.sinceBefore

\* C21: with notifications on and the threshold fixed, a successful poll
\* shows a low-quota warning for a model iff 0 < percentage <=
\* warningThreshold and none was shown for it since it was last above the
\* threshold, and an exhausted notice iff the model is exhausted and none was
\* shown since; with notifications off no poll shows a quota notice.
C21_Original ==
    /\ PolledEnabled => OncePerEpisode(lastNotices.shown)
    /\ (lastNotices.polled /\ ~lastNotices.enabled) => lastNotices.shown = {}

(***************************************************************************)
(* C22  No overlapping requests.                                           *)
(***************************************************************************)
\* C22: at most one telemetry request to a target is in flight at any time,
\* whatever the interleaving of timer ticks, startReactor's immediate poll
\* and refresh commands.
C22_Original ==
    \A r1, r2 \in requests : r1.port = r2.port => r1 = r2

(***************************************************************************)
(* C23  Failed polls do not touch shared state.                            *)
(***************************************************************************)
\* C23: a syncTelemetry call that ends in the malfunction callback leaves
\* lastSnapshot and lastRawResponse as they were before the call.
C23_Original ==
    [][(lastPoll' # NoPoll /\ lastPoll'.reported # <<>>) =>
          /\ lastSnapshot' = lastSnapshot
          /\ lastRawResponse' = lastRawResponse]_vars

(***************************************************************************)
(* C24  No uncaught failure from reprocess.                                *)
(***************************************************************************)
\* C24: whatever polls and configuration changes came before, reprocess()
\* returns normally, with a snapshot emitted or nothing emitted, and never
\* throws to its caller.
C24_Original ==
    Reprocessed => (~lastCall.threw /\ Len(lastCall.delivered) \in {0, 1})

(***************************************************************************)
(* C25  Sub-tool switching is free but capped.                             *)
(***************************************************************************)
\* A listing of Phase A on Windows fails with a needsSwitch signature.
SwitchFailure(e) == ListFails(e) /\ platform = "win32" /\ e.switchSig

\* Below the cap the failure flips the sub-tool and keeps the attempt.
FlipsFree ==
    /\ usePowershell' = ~usePowershell
    /\ strategySwitchCount' = strategySwitchCount + 1
    /\ i' = i

\* The sub-tool flips only by a counted switch, at most twice in a run, and a
\* run executes at most maxAttempts + 3 listings.
SwitchesCapped ==
    /\ [](strategySwitchCount <= MAX_STRATEGY_SWITCHES)
    /\ [](listExecs <= maxAttempts + 3)
    /\ [][usePowershell' # usePowershell =>
             strategySwitchCount' = strategySwitchCount + 1]_vars

TimeoutFailure(e) == ListFails(e) /\ platform = "win32" /\ e.timeoutSig

\* The timeout is retried: the attempt counter stays and the run remembers.
RetriedFree ==
    /\ i' = i
    /\ powershellTimeoutRetried'
    /\ UNCHANGED <<usePowershell, strategySwitchCount>>

\* The timeout consumes an attempt.
ConsumesAttempt ==
    /\ i' = i + 1
    /\ UNCHANGED <<usePowershell, strategySwitchCount, powershellTimeoutRetried>>

\* C26 as stated: the first timeout of a run while PowerShell is selected is
\* retried without consuming an attempt; every later timeout, and every
\* timeout while WMIC is selected, consumes one attempt.
C26_Original ==
    [][\A e \in ListErrors : TimeoutFailure(e) =>
          IF usePowershell /\ ~powershellTimeoutRetried
          THEN i' = i
          ELSE i' = i + 1]_vars

\* C26: a timeout whose message also holds a needsSwitch signature, while
\* fewer than 2 switches have occurred, is handled as a switch: the sub-tool
\* flips and no attempt is consumed.  Of the other timeouts the first one
\* while PowerShell is selected is retried without consuming an attempt, and
\* every later one, and every one while WMIC is selected, consumes one.
C26_ColdStartTolerance ==
    [][\A e \in ListErrors : TimeoutFailure(e) =>
          IF e.switchSig /\ strategySwitchCount < MAX_STRATEGY_SWITCHES
          THEN FlipsFree /\ UNCHANGED powershellTimeoutRetried
          ELSE IF usePowershell /\ ~powershellTimeoutRetried
          THEN RetriedFree
          ELSE ConsumesAttempt]_vars

\* A run whose first timeout was retried and which has consumed an attempt
\* since, with no switch.
C26_Witness ==
    /\ platform = "win32"
    /\ phase = "A" /\ hpc = "list"
    /\ powershellTimeoutRetried
    /\ strategySwitchCount = 0
    /\ i >= 1
    /\ listExecs = i + 1

(***************************************************************************)
(* C27  Phase ordering.                                                    *)
(***************************************************************************)
\* No phase has yielded a target, before the step and after it.
NoTargetYet == result = NotFound /\ result' = NotFound

\* The phase changes from A to B when the last attempt of Phase A has ended
\* with no target, from B to C when Phase B has ended with none, and back to
\* A only as scanEnvironment returns.
PhaseStep ==
    \/ phase' = phase
    \/ phase = "A" /\ phase' = "B" /\ i' = maxAttempts /\ NoTargetYet
    \/ phase = "B" /\ phase' = "C" /\ hpc = "diag" /\ NoTargetYet
    \/ hpc = "done" /\ hpc' = "idle" /\ phase' = "A"

\* C27: the phases of a scanEnvironment call run in the order A, B, C:
\* Phase B starts only after Phase A ended with no target, diagnostics only
\* after A and B ended with no target; a call in which diagnostics ran
\* returns NotFound; once a phase yields a target no later phase is started.
C27_PhaseOrder ==
    /\ [][PhaseStep]_vars
    /\ []((hpc = "keyword" => phase = "B") /\ (hpc = "diag" => phase = "B"))
    /\ [](phase = "C" => (hpc = "done" /\ result = NotFound))
    /\ [](result # NotFound => hpc = "done")
    /\ [][result # NotFound => (hpc' = "idle" /\ phase' = "A")]_vars

\* Diagnostics has run and scanEnvironment is about to return NotFound.
C27_Witness == phase = "C" /\ hpc = "done" /\ result = NotFound /\ maxAttempts > 0

(***************************************************************************)
(* C28  Phase B gating.                                                    *)
(***************************************************************************)
\* scanByKeyword is about to run and the strategy is not the Windows one
\* with PowerShell selected.
KeywordUnsupported == hpc = "keyword" /\ ~(platform = "win32" /\ usePowershell)

\* C28: the keyword scan runs its command only if, as Phase A ended, the
\* strategy is the Windows one with PowerShell selected; otherwise Phase B
\* spawns nothing and yields no target.  The selection changes only by a
\* switch in Phase A, so it persists from one scanEnvironment call to the
\* next.
C28_KeywordGated ==
    /\ [][(KeywordThrows \/ KeywordOutput) =>
             (platform = "win32" /\ usePowershell)]_vars
    /\ [][KeywordUnsupported =>
             (KeywordSkipped /\ hpc' = "diag" /\ result' = NotFound)]_vars
    /\ [][usePowershell' # usePowershell => (hpc = "list" /\ phase = "A")]_vars
    /\ [][platform' = platform]_vars

\* Phase B has spawned nothing on Windows because WMIC is selected, and
\* Phase A of this call made no switch: an earlier call selected it.
C28_Witness ==
    /\ platform = "win32" /\ ~usePowershell
    /\ phase = "B" /\ hpc = "diag"
    /\ strategySwitchCount = 0
    /\ candidates = <<>>

(***************************************************************************)
(* C29  Discovery terminates.                                              *)
(***************************************************************************)
\* Whether each place that spawns a command or sends a request passes a
\* timeout: scanByProcessName, scanByKeyword, runDiagnostics and pingPort do;
\* identifyPorts calls execAsync(cmd) with no options.
SpawnTimeouts ==
    [list |-> TRUE, ports |-> FALSE, ping |-> TRUE, keyword |-> TRUE, diag |-> TRUE]

\* The steps that are bound to happen: the program's own steps, and the
\* resolution (answer, failure or timeout) of a command or request that
\* carries a timeout.  A command without one may stay pending for ever.
BoundedStep ==
    \/ SpawnTimeouts.list /\ (ListThrows \/ ListEmpty \/ ListOutput)
    \/ SpawnTimeouts.ports /\ IdentifyPorts
    \/ PingSend
    \/ SpawnTimeouts.ping /\ PingReply
    \/ KeywordSkipped
    \/ SpawnTimeouts.keyword /\ (KeywordThrows \/ KeywordOutput)
    \/ SpawnTimeouts.diag /\ RunDiagnostics
    \/ ScanReturns

\* The hunter where every bounded step is eventually taken.
SpecHunterFair == InitHunter /\ [][NextHunter]_vars /\ WF_vars(BoundedStep)

\* C29: every scanEnvironment call eventually returns, a target or NotFound,
\* even if a spawned command or a probed port never answers.
C29_Original == (hpc # "idle") ~> (hpc = "done")

(***************************************************************************)
(* Membership: the dashboard's grouping messages, polls and thresholds.    *)
(***************************************************************************)
\* The snapshots a poll may bring: A with B, or all three (C resets later
\* than A and B).
MemberSnapshots ==
    LET m(id, reset) == [modelId |-> <<id>>, label |-> id,
                         remainingFraction |-> 5000000, resetTime |-> reset]
    IN  { <<m("A", 1), m("B", 1)>>,
          <<m("A", 1), m("B", 1), m("C", 2)>> }

\* The values the updateThresholds messages carry here: the default warning
\* threshold with a critical threshold below it (stored) or equal to it
\* (refused).
MemberThresholdInputs == [warningVal : {30}, criticalVal : {5, 30}]

\* The names renameGroup may be sent.
MemberNames == {"Foo"}

InitMembers ==
    /\ snapModels = <<>>
    /\ groupMappings \in SavedMappings
    /\ groupingCustomNames = EmptyObject
    /\ groups = <<>>
    /\ recomputed = <<>>
    /\ groupingEnabled \in BOOLEAN
    /\ groupingShowInStatusBar = FALSE
    /\ pinnedGroups = <<>>
    /\ groupOrder = <<>>
    /\ ThresholdsQuiet
    /\ BootQuiet
    /\ AlertsQuiet
    /\ ParseQuiet
    /\ HunterQuiet("linux")
    /\ CockpitQuiet

\* reactor.reprocess(): nothing without a cached response, else the cached
\* response is decoded under the configuration given.
Regroup(enabled, savedMappings, customNames) ==
    IF snapModels = <<>>
    THEN UNCHANGED groups
    ELSE groups' = GroupingStepWhen(enabled, snapModels, savedMappings, customNames)

\* The dashboard shows groups: grouping is on and a snapshot was decoded.
GroupsShown == groupingEnabled /\ snapModels # <<>>

\* syncTelemetry succeeds: the response is decoded under the configuration
\* and becomes the latest snapshot.
MemberPoll ==
    /\ \E models \in MemberSnapshots :
          /\ snapModels' = models
          /\ groups' = GroupingStepWhen(groupingEnabled, models, groupMappings,
                                        groupingCustomNames)
    /\ UNCHANGED <<groupMappings, groupingCustomNames, recomputed, groupingEnabled,
                   groupingShowInStatusBar, pinnedGroups, groupOrder, thresholdVars,
                   bootVars, alertVars, parseVars, hunterVars, cockpitVars>>

\* The dashboard's rerender message.
MemberReprocess ==
    /\ snapModels # <<>>
    /\ Regroup(groupingEnabled, groupMappings, groupingCustomNames)
    /\ UNCHANGED <<snapModels, groupMappings, groupingCustomNames, recomputed,
                   groupingEnabled, groupingShowInStatusBar, pinnedGroups, groupOrder,
                   thresholdVars, bootVars, alertVars, parseVars, hunterVars, cockpitVars>>

\* A first-time test that does not look at the stored membership.
NeedsBootstrapAnyMap == Len(snapModels) > 0

\* The tests toggleGrouping makes, grouping just switched on, before it
\* groups automatically: nothing is stored and the latest snapshot has models.
NeedsBootstrap == DOMAIN groupMappings = {} /\ Len(snapModels) > 0

\* The dashboard's toggleGrouping message.
ToggleGrouping ==
    LET enabled == ~groupingEnabled
        newMappings == IF enabled /\ NeedsBootstrap
                       THEN calculateGroupMappings(snapModels)
                       ELSE groupMappings
    IN  /\ groupingEnabled' = enabled
        /\ groupingShowInStatusBar' = (enabled \/ groupingShowInStatusBar)
        /\ groupMappings' = newMappings
        /\ Regroup(enabled, newMappings, groupingCustomNames)
        /\ UNCHANGED <<snapModels, groupingCustomNames, recomputed, pinnedGroups,
                       groupOrder, thresholdVars, bootVars, alertVars, parseVars,
                       hunterVars, cockpitVars>>

\* The dashboard's renameGroup message for the first group it shows.
RenameGroup ==
    /\ GroupsShown
    /\ \E groupName \in MemberNames :
          LET members == {groups[1].models[k].modelId : k \in 1..Len(groups[1].models)}
              customNames == [id \in DOMAIN groupingCustomNames \cup members |->
                                 IF id \in members THEN groupName
                                 ELSE groupingCustomNames[id]]
          IN  /\ groupingCustomNames' = customNames
              /\ Regroup(groupingEnabled, groupMappings, customNames)
    /\ UNCHANGED <<snapModels, groupMappings, recomputed, groupingEnabled,
                   groupingShowInStatusBar, pinnedGroups, groupOrder, thresholdVars,
                   bootVars, alertVars, parseVars, hunterVars, cockpitVars>>

\* The dashboard's toggleGroupPin message for one of the groups it shows.
ToggleGroupPin ==
    /\ GroupsShown
    /\ \E n \in 1..Len(groups) :
          LET groupId == groups[n].groupId
              existing == \E k \in 1..Len(pinnedGroups) : pinnedGroups[k] = groupId
          IN  /\ existing \/ Len(pinnedGroups) < MaxPins
              /\ pinnedGroups' =
                     IF existing
                     THEN SelectSeq(pinnedGroups, LAMBDA g : g # groupId)
                     ELSE Append(pinnedGroups, groupId)
    /\ Regroup(groupingEnabled, groupMappings, groupingCustomNames)
    /\ UNCHANGED <<snapModels, groupMappings, groupingCustomNames, recomputed,
                   groupingEnabled, groupingShowInStatusBar, groupOrder, thresholdVars,
                   bootVars, alertVars, parseVars, hunterVars, cockpitVars>>

\* The dashboard's updateGroupOrder message: the groups it shows, dragged
\* into the reverse order.
UpdateGroupOrder ==
    /\ GroupsShown
    /\ groupOrder' = [n \in 1..Len(groups) |-> groups[Len(groups) + 1 - n].groupId]
    /\ Regroup(groupingEnabled, groupMappings, groupingCustomNames)
    /\ UNCHANGED <<snapModels, groupMappings, groupingCustomNames, recomputed,
                   groupingEnabled, groupingShowInStatusBar, pinnedGroups, thresholdVars,
                   bootVars, alertVars, parseVars, hunterVars, cockpitVars>>

\* The dashboard's updateThresholds message.
MemberThresholds ==
    /\ pendingCritical = <<>>
    /\ \E message \in MemberThresholdInputs :
          updateThresholdsWith(message.warningVal, message.criticalVal)

NextMembers ==
    \/ MemberPoll
    \/ MemberReprocess
    \/ ToggleGrouping
    \/ AutoGroup
    \/ RenameGroup
    \/ ToggleGroupPin
    \/ UpdateGroupOrder
    \/ MemberThresholds
    \/ UpdateThresholdsEnds

SpecMembers == InitMembers /\ [][NextMembers]_vars

(***************************************************************************)
(* C30  Membership changes only by recomputation.                          *)
(***************************************************************************)
\* toggleGrouping switches grouping on while nothing is stored and the
\* latest snapshot has models.
\* A step of autoGroup that stores a membership: it adds to the history.
AutoGroupStep == recomputed' # recomputed

\* A step of toggleGrouping: the stored groupingEnabled flips.
ToggleStep == groupingEnabled' # groupingEnabled

FirstTimeEnable ==
    /\ ToggleStep
    /\ ~groupingEnabled
    /\ DOMAIN groupMappings = {}
    /\ Len(snapModels) > 0

\* A step of one of the operations that are not to touch the membership:
\* a poll, reprocess, renameGroup, toggleGroupPin, updateGroupOrder or
\* updateThresholds.
OtherOperation == ~AutoGroupStep /\ ~ToggleStep

\* C30: the stored modelId -> groupId map changes only by autoGroup and by
\* toggleGrouping switching grouping on while the map is empty and the latest
\* snapshot has models; each of the two stores calculateGroupMappings of the
\* latest models; a poll, reprocess, rename, pin, reorder or threshold
\* operation leaves the map as it is, and so does switching grouping on
\* while the map is not empty.
C30_OnlyRecomputation ==
    /\ [][groupMappings' # groupMappings => (AutoGroupStep \/ FirstTimeEnable)]_vars
    /\ [][(AutoGroupStep \/ FirstTimeEnable) =>
             groupMappings' = calculateGroupMappings(snapModels)]_vars
    /\ [][OtherOperation => groupMappings' = groupMappings]_vars
    /\ [][(ToggleStep /\ ~groupingEnabled /\ DOMAIN groupMappings # {}) =>
             groupMappings' = groupMappings]_vars

\* Grouping is on and a membership nobody had stored at the start is stored,
\* though autoGroup never ran: the first-time enable has stored it.
C30_Witness ==
    /\ groupingEnabled
    /\ recomputed = <<>>
    /\ groupMappings \notin SavedMappings
    /\ groupMappings = calculateGroupMappings(snapModels)

(***************************************************************************)
(* Ordering: the filter and the sort of decodeSignal.                      *)
(***************************************************************************)
\* The labels a payload uses.
OrderLabels == {"A", "B", "C"}

\* clientModelConfigs: each entry with its label and whether it carries a
\* quotaInfo.
OrderConfigs == SeqsUpTo([label : OrderLabels, hasQuotaInfo : BOOLEAN], MaxModels)

\* clientModelSorts, each sort the sequence of its groups' modelLabels: none;
\* one without groups; B, A in one group; C and A in two groups; A, B and A
\* again; a first sort naming B before a second naming all three.
OrderSorts ==
    { <<>>,
      << <<>> >>,
      << << <<"B", "A">> >> >>,
      << << <<"C">>, <<"A">> >> >>,
      << << <<"A", "B">>, <<"A">> >> >>,
      << << <<"B">> >>, << <<"A", "B", "C">> >> >> }

\* The payloads decodeSignal is given.
OrderPayloads == [configs : OrderConfigs, modelSorts : OrderSorts]

\* The labels of the groups of a sort, in the order the two loops visit them.
RECURSIVE FlatLabels(_)
FlatLabels(sortGroups) ==
    IF sortGroups = <<>> THEN <<>>
    ELSE Head(sortGroups) \o FlatLabels(Tail(sortGroups))

\* sortOrderMap: each label of the first sort with the index set for it last.
SortOrderMap(modelSorts) ==
    IF Len(modelSorts) > 0
    THEN LET flat == FlatLabels(modelSorts[1])
         IN  [label \in {flat[n] : n \in 1..Len(flat)} |->
                 (CHOOSE n \in 1..Len(flat) :
                     /\ flat[n] = label
                     /\ \A later \in (n + 1)..Len(flat) : flat[later] # label) - 1]
    ELSE EmptyObject

\* Where the collation puts a label.
LabelRank(label) ==
    CASE label = "A" -> 1
      [] label = "B" -> 2
      [] label = "C" -> 3

\* a.label.localeCompare(b.label)
localeCompare(x, y) == LabelRank(x) - LabelRank(y)

\* A comparator that looks at the labels only.
CompareModelsByLabel(sortOrderMap, a, b) == localeCompare(a.label, b.label)

\* The comparator handed to models.sort.
CompareModels(sortOrderMap, a, b) ==
    IF a.label \in DOMAIN sortOrderMap /\ b.label \in DOMAIN sortOrderMap
    THEN sortOrderMap[a.label] - sortOrderMap[b.label]
    ELSE IF a.label \in DOMAIN sortOrderMap THEN 0 - 1
    ELSE IF b.label \in DOMAIN sortOrderMap THEN 1
    ELSE localeCompare(a.label, b.label)

\* The model put into a sorted list, behind the models it does not precede.
RECURSIVE InsertModel(_, _, _)
InsertModel(sortOrderMap, model, sorted) ==
    IF sorted = <<>> THEN <<model>>
    ELSE IF CompareModels(sortOrderMap, model, Head(sorted)) < 0
    THEN <<model>> \o sorted
    ELSE <<Head(sorted)>> \o InsertModel(sortOrderMap, model, Tail(sorted))

\* models.sort(comparator): the sort is stable.
RECURSIVE SortModels(_, _)
SortModels(sortOrderMap, models) ==
    IF models = <<>> THEN <<>>
    ELSE InsertModel(sortOrderMap, models[Len(models)],
                     SortModels(sortOrderMap, SubSeq(models, 1, Len(models) - 1)))

\* configs.filter(m => !!m.quotaInfo)
WithQuotaInfo(configs) == SelectSeq(configs, LAMBDA m : m.hasQuotaInfo)

\* The models of the snapshot decodeSignal builds from a payload.
DecodeModels(raw) ==
    SortModels(SortOrderMap(raw.modelSorts), WithQuotaInfo(raw.configs))

InitOrder ==
    /\ CockpitQuiet
    /\ SettingsQuiet
    /\ ParseQuiet
    /\ HunterQuiet("linux")

\* The first syncTelemetry, with a payload: it is cached and decoded.
DecodeOrder ==
    /\ lastRawResponse = Undefined
    /\ \E raw \in OrderPayloads :
          /\ lastRawResponse' = raw
          /\ snapModels' = DecodeModels(raw)
    /\ UNCHANGED <<port, token, pulseTimer, timers, timerPeriods, currentInterval, lastSnapshot,
                   requests, notifyVars, extensionVars, polls, commands, lastPoll,
                   lastCall, groupMappings, groupingCustomNames, groups, recomputed,
                   groupingEnabled, groupingShowInStatusBar, pinnedGroups, groupOrder,
                   thresholdVars, bootVars, alertVars, parseVars, hunterVars>>

NextOrder == DecodeOrder

SpecOrder == InitOrder /\ [][NextOrder]_vars

(***************************************************************************)
(* C31  Model ordering.                                                    *)
(***************************************************************************)
\* The label occurs in the first sort of the payload.
Listed(raw, label) ==
    /\ Len(raw.modelSorts) > 0
    /\ \E n \in 1..Len(FlatLabels(raw.modelSorts[1])) :
          FlatLabels(raw.modelSorts[1])[n] = label

\* The first sort names the label x at or before a place where it names y.
NamedInOrder(raw, x, y) ==
    LET flat == FlatLabels(raw.modelSorts[1])
    IN  \E p, q \in 1..Len(flat) : p <= q /\ flat[p] = x /\ flat[q] = y

\* C31: the models of a decoded snapshot are the configs with a quotaInfo,
\* those whose label the first sort names first and in the order in which it
\* names them, the others behind them in the order of their labels (all of
\* them when the payload has no sort).
C31_ModelOrder ==
    lastRawResponse # Undefined =>
        /\ IsPermutation(snapModels, WithQuotaInfo(lastRawResponse.configs))
        /\ \A j, k \in 1..Len(snapModels) :
              j < k =>
                LET x == snapModels[j].label
                    y == snapModels[k].label
                IN  /\ Listed(lastRawResponse, y) => Listed(lastRawResponse, x)
                    /\ Listed(lastRawResponse, y) => NamedInOrder(lastRawResponse, x, y)
                    /\ ~Listed(lastRawResponse, x) => LabelRank(x) <= LabelRank(y)

\* A payload has been decoded that lists C before A, has B unlisted, has a
\* config without quotaInfo, and whose configs come as A, B, C.
C31_Witness ==
    /\ lastRawResponse # Undefined
    /\ lastRawResponse.modelSorts = << << <<"C">>, <<"A">> >> >>
    /\ Len(lastRawResponse.configs) = 3
    /\ \A n \in 1..3 : lastRawResponse.configs[n].hasQuotaInfo
    /\ lastRawResponse.configs[1].label = "A"
    /\ lastRawResponse.configs[2].label = "B"
    /\ lastRawResponse.configs[3].label = "C"
    /\ snapModels[1].label = "C" /\ snapModels[2].label = "A" /\ snapModels[3].label = "B"

(***************************************************************************)
(* C32  The connection target is replaced wholesale.                       *)
(***************************************************************************)
\* The pair is that of one scan result.
OfOneDiscovery(p, tk) ==
    \E info \in ScanResults \ {NotFound} : p = info.connectPort /\ tk = info.csrfToken

\* The pair the constructor leaves.
Unengaged(p, tk) == p = 0 /\ tk = ""

\* A step of bootSystems that calls engage: it had awaited a scan.
EngageStep ==
    /\ scans' = scans - 1
    /\ OfOneDiscovery(port', token')

C33_Original == \A r \in requests : ~Unengaged(r.port, r.token)

(***************************************************************************)
(* Timers: the boots, the polls, configuration changes and shutdown.       *)
(***************************************************************************)
\* How a request ends here: with the quota of the model, or refused.
TimerResponses ==
    { [kind |-> "json", detail |-> "status", models |-> <<100>>],
      [kind |-> "error", detail |-> "ECONNREFUSED"] }

NextTimers ==
    \/ ScanDone
    \/ RetryTimerFires
    \/ RetryCommand
    \/ PulseTick
    \/ RefreshCommand
    \/ PollSettles(TimerResponses)
    \/ ConfigChange
    \/ Shutdown

SpecTimers == Init /\ [][NextTimers]_vars

(***************************************************************************)
(* C34  Single poll timer.                                                 *)
(***************************************************************************)
\* C34: at most one interval timer is set; it is the one the reactor holds
\* and its period is the interval the latest startReactor was given.
C34_SinglePollTimer ==
    /\ Cardinality(timers) <= 1
    /\ \A t \in timers : t = pulseTimer /\ timerPeriods[t] = currentInterval

\* The reactor was started, restarted by a change of the refresh interval,
\* and a scan of a later bootSystems is under way while its timer is set.
C34_Witness ==
    /\ timers = {pulseTimer}
    /\ currentInterval = 60000
    /\ timerPeriods[pulseTimer] = 60000
    /\ scans > 0
    /\ commands > 0

(***************************************************************************)
(* C35  No stale overwrite.                                                *)
(***************************************************************************)
\* C35: the cached snapshot and the cached response are never replaced by
\* those of a request issued before the request whose result they hold
\* (requests are numbered in the order syncTelemetry issues them).
C35_Original ==
    [][/\ (lastSnapshot # Undefined /\ lastSnapshot' # Undefined)
            => lastSnapshot'.src >= lastSnapshot.src
       /\ (lastRawResponse # Undefined /\ lastRawResponse' # Undefined)
            => lastRawResponse'.src >= lastRawResponse.src]_vars

(***************************************************************************)
(* C36  An invalid target is abandoned.                                    *)
(***************************************************************************)
\* A poll has failed with a lost connection and no discovery has found a
\* target since: without a retry command, only onMalfunction takes an
\* engaged client offline.
AfterSignalLost == commands = 0 /\ ~systemOnline /\ port # 0

\* The discovery that followed has given up: the offline snapshot is shown,
\* no scan is running and no auto-retry is scheduled.
EndedOffline ==
    /\ AfterSignalLost
    /\ scans = 0
    /\ retryTimers = 0
    /\ hudView = createOfflineSnapshot

\* C36: after a poll failure with a lost connection, a request is written
\* only by the startReactor of a discovery that has found a target; once the
\* discovery has ended offline, no interval timer is set, and no discovery
\* starts until the retry command.
C36_Original ==
    /\ [][(AfterSignalLost /\ polls' = polls + 1) => scans' = scans - 1]_vars
    /\ [](EndedOffline => timers = {})
    /\ [][(EndedOffline /\ commands' = 0) => scans' = scans]_vars

(***************************************************************************)
(* C37  A single discovery in progress.                                    *)
(***************************************************************************)
\* C37: at most one bootSystems call is awaiting scanEnvironment at any time.
C37_Original == scans <= 1

(***************************************************************************)
(* C38  Offline stays offline.                                             *)
(***************************************************************************)
\* C38: while the dashboard shows the offline snapshot, a connected snapshot
\* is delivered to it only by a step in which a poll settles.
C38_Original ==
    [][(hudView = createOfflineSnapshot /\ hudView'.isConnected)
          => (requests' \subseteq requests /\ requests' # requests)]_vars

(***************************************************************************)
(* Grouping of snapshots whose modelIds are pairwise distinct and may hold *)
(* underscores: the id "A_B" beside the ids "A" and "B".                   *)
(***************************************************************************)
\* The models a snapshot may list, one for each modelId.
PartitionModels ==
    { [modelId |-> id, label |-> Head(id), resetTime |-> 1,
       remainingFraction |-> 5000000] : id \in ModelIds }

InitPartition ==
    /\ snapModels \in { models \in SeqsUpTo(PartitionModels, MaxModels) \ {<<>>} :
                            DistinctModelIds(models) }
    /\ groupMappings \in GroupSavedMappings
    /\ groupingCustomNames = EmptyObject
    /\ groups = <<>>
    /\ recomputed = <<>>
    /\ GroupConfigDefault
    /\ ThresholdsQuiet
    /\ BootQuiet
    /\ AlertsQuiet
    /\ ParseQuiet
    /\ HunterQuiet("linux")
    /\ CockpitQuiet

NextPartition == DecodeGroups

SpecPartition == InitPartition /\ [][NextPartition]_vars

(***************************************************************************)
(* C39  The groups partition the models.                                   *)
(***************************************************************************)
\* The places at which the groups hold the model.
PlacesOf(model) ==
    { place \in UNION { {g} \X (1..Len(groups[g].models)) : g \in 1..Len(groups) } :
        groups[place[1]].models[place[2]] = model }

\* C39: once a snapshot with pairwise distinct modelIds has been grouped,
\* each of its models is a member of exactly one group, once, and no group is
\* empty.
C39_Original ==
    groups # <<>> =>
        /\ \A k \in 1..Len(snapModels) : Cardinality(PlacesOf(snapModels[k])) = 1
        /\ \A g \in 1..Len(groups) : groups[g].models # <<>>

====
